---- MODULE Spec2Model ----
(***************************************************************************)
(* The memoizing, trampolined parse driver of sourcer (sourcer/parser.py). *)
(* One behaviour is one call of parse or parse_prefix: Init is the state   *)
(* right after Parser.__init__, every later step is the call of _start in  *)
(* run, one iteration of run's while loop, or run's return / raise.        *)
(***************************************************************************)
EXTENDS Integers, Sequences, FiniteSets, TLC

(* ------------------------------ bounds -------------------------------- *)

\* Longest source (in characters or tokens) a behaviour starts from.
MaxLen == 3

\* Guard on the depth of the work stack; StackCapNotHit shows it is never met.
MaxDepth == 16

\* The most operands of a sum among the sources.
MaxOperands == 3

(* ------------------------------- terms -------------------------------- *)
\* A term is a record [k, s, items]: k is the kind, s the characters of a
\* string term or the name of a Struct class / ForwardRef, items the sub-terms.
\* Two string or tuple terms are equal when their contents are (Python's ==
\* and hash of str and tuple); a Struct class and a ForwardRef are told apart
\* by name, which stands for the object's identity.

Str(s) == [k |-> "str", s |-> s, items |-> <<>>]

Tup(ts) == [k |-> "tuple", s |-> <<>>, items |-> ts]

NoneTerm == [k |-> "none", s |-> <<>>, items |-> <<>>]

StructT(name) == [k |-> "struct", s |-> <<name>>, items |-> <<>>]

Ref(name) == [k |-> "ref", s |-> <<name>>, items |-> <<>>]

Left(a, b) == [k |-> "left", s |-> <<>>, items |-> <<a, b>>]

End == [k |-> "end", s |-> <<>>, items |-> <<>>]

Or(a, b) == [k |-> "or", s |-> <<>>, items |-> <<a, b>>]

Right(a, b) == [k |-> "right", s |-> <<>>, items |-> <<a, b>>]

Expect(t) == [k |-> "expect", s |-> <<>>, items |-> <<t>>]

Backtrack == [k |-> "backtrack", s |-> <<>>, items |-> <<>>]

\* ReduceLeft(first, middle, last) and ReduceRight(first, middle, last) with
\* the default build (a 3-tuple).
ReduceLeft(first, middle, last) ==
    [k |-> "reduceleft", s |-> <<>>, items |-> <<first, middle, last>>]

ReduceRight(first, middle, last) ==
    [k |-> "reduceright", s |-> <<>>, items |-> <<first, middle, last>>]

\* List(t): zero or more t.
List(t) == [k |-> "list", s |-> <<>>, items |-> <<t>>]

\* A compiled regular expression used as a term; pat is "a+" or "b*".
Regex(pat) == [k |-> "regex", s |-> <<pat>>, items |-> <<>>]

\* Literal(v): v is written as <<"str", c1, ...>>, <<"int", n>> or <<"none">>.
Literal(v) == [k |-> "literal", s |-> v, items |-> <<>>]

\* A Python object that is none of the things _parse knows and is no term
\* object either (an int, an arbitrary object), used as a term.
Obj(v) == [k |-> "plain", s |-> v, items |-> <<>>]

(* ------------------------------ grammar ------------------------------- *)
\* The user's grammar objects: what each ForwardRef's thunk returns and the
\* (field name, field term) pairs each Struct class assigns in parse().

RefNames == {"A", "B", "P", "N", "R", "S"}

RefTarget(name) ==
    CASE name = "A" -> Tup(<<Ref("A"), Str(<<"a">>)>>)
      [] name = "B" -> Or(Tup(<<Ref("B"), Str(<<"b">>)>>), Str(<<"a">>))
      [] name = "P" -> Or(Tup(<<Str(<<"a">>), Ref("P"), Str(<<"b">>)>>), Str(<<>>))
      [] name = "N" -> Or(StructT("Node"), NoneTerm)
      [] name = "R" -> Ref("A")
      [] name = "S" -> StructT("Self")

StructNames == {"Pair", "Node", "Unit", "Loop", "Self", "Add", "Arrow"}

\* An operand of the sums of the tests, and their operator.
Operand == Or(Str(<<"a">>), Str(<<"b">>))

Plus == Str(<<"+">>)

\* The class of sourcer a Struct class derives from.
StructBase(cls) ==
    CASE cls = "Add" -> "LeftAssoc"
      [] cls = "Arrow" -> "RightAssoc"
      [] OTHER -> "Struct"

_struct_fields(cls) ==
    CASE cls = "Pair" -> << <<"left", Str(<<"a">>)>>,
                            <<"sep", Str(<<>>)>>,
                            <<"right", Str(<<"b">>)>> >>
      [] cls = "Node" -> << <<"head", Str(<<"a">>)>>, <<"tail", Ref("N")>> >>
      [] cls = "Unit" -> << >>
      [] cls = "Loop" -> << <<"first", Str(<<"a">>)>>, <<"rest", StructT("Loop")>> >>
      [] cls = "Self" -> << <<"me", Ref("S")>>, <<"x", Str(<<"a">>)>> >>
      [] cls \in {"Add", "Arrow"} ->
            << <<"left", Operand>>, <<"op", Plus>>, <<"right", Operand>> >>

\* The terms handed to parse / parse_prefix that are built from strings,
\* tuples, Struct classes, None and ForwardRefs alone.
PlainRoots ==
    { Str(<<>>), Str(<<"a">>), Str(<<"a", "b">>), Str(<<"b", "a", "b">>),
      NoneTerm, Tup(<<>>),
      Tup(<<Str(<<>>), Str(<<"a">>), NoneTerm, Str(<<"b">>)>>),
      Tup(<<Str(<<"a">>), Str(<<"a">>), Str(<<"a">>)>>),
      Tup(<<Tup(<<Tup(<<Str(<<"a">>)>>), Str(<<"b">>)>>), Str(<<"a">>)>>),
      Ref("A"), Ref("R"), RefTarget("A"), Tup(<<Str(<<"a">>), Ref("R")>>),
      StructT("Pair"), StructT("Unit"), StructT("Loop"), StructT("Self"),
      Tup(<<StructT("Pair"), StructT("Pair")>>),
      Tup(<<StructT("Unit"), StructT("Unit"), Str(<<"a">>)>>) }

\* Those that also use the ordered choice Or.
ChoiceRoots ==
    { Ref("B"), Or(Tup(<<Ref("B"), Str(<<"a">>)>>), Ref("B")),
      Ref("P"), Ref("N"), Tup(<<Ref("N"), Str(<<"b">>)>>),
      Or(Str(<<"a">>), Str(<<"a", "b">>)),
      Tup(<<Or(Str(<<"a">>), Str(<<"a", "b">>)), Str(<<"b">>)>>) }

\* Those that use compiled regular expressions.
RegexRoots ==
    { Regex("a+"), Regex("b*"),
      Tup(<<Regex("b*"), Regex("a+"), Regex("b*")>>) }

\* The sums of test_left_assoc, test_right_assoc and the two assoc Struct
\* tests, and two sums in a row.
SumRoots ==
    { ReduceLeft(Operand, Plus, Operand), ReduceRight(Operand, Plus, Operand),
      StructT("Add"), StructT("Arrow"),
      Tup(<<StructT("Add"), StructT("Add")>>) }

\* Those that look ahead with Expect or back with Backtrack.
LookRoots ==
    { Tup(<<Str(<<"a">>), Backtrack, Str(<<"a">>)>>),
      Tup(<<Str(<<"a">>), Tup(<<Backtrack>>)>>),
      Tup(<<Str(<<"a">>), Right(Backtrack, Str(<<"a">>)), Str(<<"b">>)>>),
      Tup(<<Expect(Str(<<"a", "b">>)), Str(<<"a">>)>>) }

Roots == PlainRoots \cup ChoiceRoots \cup RegexRoots \cup LookRoots

\* Repetitions: of the empty string (test_infinite_list), of a string, of
\* None, of terms that consume on some iterations and not on others, of a
\* term that moves back, of a repetition, and one before a plain object.
RepeatRoots ==
    { List(Str(<<>>)), List(Str(<<"a">>)), List(NoneTerm),
      List(Or(Str(<<"a">>), Str(<<>>))),
      List(Or(Str(<<"a">>), Backtrack)),
      List(List(Str(<<"a">>))),
      Tup(<<List(Str(<<"a">>)), Str(<<"b">>)>>),
      Tup(<<List(Str(<<"a">>)), Obj(<<"int", "0">>)>>) }

\* The terms handed to parse / parse_prefix with a list of plain values as
\* the source.
ListRoots ==
    { NoneTerm, Str(<<"a">>), Literal(<<"none">>), Obj(<<"int", "0">>),
      Tup(<<Regex("b*"), NoneTerm>>),
      Tup(<<Literal(<<"str", "a">>), NoneTerm, Literal(<<"str", "a">>)>>),
      Tup(<<Obj(<<"int", "0">>), Obj(<<"int", "0">>)>>),
      Tup(<<NoneTerm, Literal(<<"int", "0">>), Obj(<<"int", "0">>)>>) }

(* ------------------------------ sources ------------------------------- *)

Chars == {"a", "b"}

\* The content of a token of a token source.
Contents == {<<"a">>, <<"a", "b">>}

Token(c) == [content |-> c]

SeqsUpTo(S, n) == UNION {[1..m -> S] : m \in 0..n}

TextSources == SeqsUpTo(Chars, MaxLen)

TokenSources == SeqsUpTo({Token(c) : c \in Contents}, MaxLen)

\* The sum of the operands ops: ops[1] + ops[2] + ...
Sum(ops) ==
    [n \in 1..(2 * Len(ops) - 1) |->
        IF n % 2 = 1 THEN ops[(n + 1) \div 2] ELSE "+"]

\* Sums of 1..MaxOperands operands, each as it is, with an operator after it,
\* and with an operand after it.
SumSources ==
    LET sums == {Sum(ops) : ops \in UNION {[1..n -> Chars] : n \in 1..MaxOperands}}
    IN  sums \cup {Append(s, "+") : s \in sums} \cup {Append(s, "a") : s \in sums}

(* --------------------------- values, results -------------------------- *)
\* A parsed value: a string, a tuple of values, None, or a Struct instance
\* (id is its address in heap).

StrVal(s) == [k |-> "str", s |-> s, items |-> <<>>, id |-> 0]

TupleVal(vs) == [k |-> "tuple", s |-> <<>>, items |-> vs, id |-> 0]

NoneVal == [k |-> "none", s |-> <<>>, items |-> <<>>, id |-> 0]

InstVal(id) == [k |-> "inst", s |-> <<>>, items |-> <<>>, id |-> id]

\* A Python list of values.
ListVal(vs) == [k |-> "list", s |-> <<>>, items |-> vs, id |-> 0]

\* A match object: text is what the regular expression matched.
MatchVal(text) == [k |-> "match", s |-> text, items |-> <<>>, id |-> 0]

IntVal(n) == [k |-> "int", s |-> <<n>>, items |-> <<>>, id |-> 0]

\* The value a Literal or a plain object used as a term stands for.
ValueOf(v) ==
    CASE v[1] = "str" -> StrVal(Tail(v))
      [] v[1] = "int" -> IntVal(v[2])
      [] v[1] = "none" -> NoneVal

\* The elements of a source that is a list of plain values, not of tokens.
PlainValues == {StrVal(<<"a">>), NoneVal, IntVal("0")}

ListSources == SeqsUpTo(PlainValues, MaxLen)

ParseResult(value, pos) == [t |-> "result", value |-> value, pos |-> pos]

ParseFailure == [t |-> "failure", value |-> NoneVal, pos |-> 0]

\* An exception other than ParseError leaving a generator or the driver.
Exc(name) == [t |-> name, value |-> NoneVal, pos |-> 0]

\* Python's None as the value of run's variable ans.
NoAns == [t |-> "none", value |-> NoneVal, pos |-> 0]

\* The sub-request a suspension emits; NoStep when it emitted a final result.
ParseStep(term, pos) == [t |-> "step", term |-> term, pos |-> pos]

NoStep == [t |-> "nostep", term |-> NoneTerm, pos |-> 0]

(* ------------------------------- state -------------------------------- *)

VARIABLES
    entry,      \* the entry point called: "parse" or "parse_prefix"
    term,       \* its term argument
    source,     \* Parser.source
    is_str,     \* whether source is a string (Parser._parse_string's choice)
    memo,       \* Parser.memo: (term, pos) -> ParseResult or ParseFailure
    stack,      \* Parser.stack: frames (key, generator), top last
    fieldmap,   \* Parser.fieldmap: Struct class -> its (name, term) pairs
    heap,       \* the Struct instances allocated so far, by address
    ans,        \* run's local variable ans
    req,        \* the ParseStep the last resumed suspension emitted, if any
    phase,      \* "init", "loop", "returned", "raised" or "crashed"
    ret,        \* what the entry point returned, or the exception of a crash
    answers,    \* history: every sub-request answered so far, with its answer
    delegates,  \* Parser.delegates: assoc Struct class -> its reducer term
    calls,      \* history: how the entry point's earlier calls ended
    parked      \* the Parser of the other invocation while this one runs

vars == <<entry, term, source, is_str, memo, stack, fieldmap, heap, ans, req,
          phase, ret, answers, delegates, calls, parked>>

EmptyMap == [x \in {} |-> NoAns]

Put(m, key, v) == [x \in DOMAIN m \cup {key} |-> IF x = key THEN v ELSE m[x]]

Min(a, b) == IF a <= b THEN a ELSE b

\* Python's seq[lo:hi] for 0 <= lo <= hi.
Slice(seq, lo, hi) == SubSeq(seq, lo + 1, Min(hi, Len(seq)))

\* What parse returns: the value alone.
ParseValue(v) == [t |-> "value", value |-> v, pos |-> 0]

NoRet == [t |-> "none", value |-> NoneVal, pos |-> 0]

(* ---------------------------- suspensions ----------------------------- *)
\* A generator object: gen is the generator function _parse chose, term and
\* start are its arguments, and i, ans, pos, obj are its locals (the index of
\* the item awaited, the values collected, the position, and the instance a
\* Struct generator fills in). pc is where it is suspended: "new" until the
\* first send, "wait" at a yield of a ParseStep (asked is that ParseStep),
\* "failed" at a yield of ParseFailure and "ended" at a yield of a ParseResult
\* or after an exception.

Generator(gen, t, pos) ==
    [gen |-> gen, term |-> t, start |-> pos, pc |-> "new", i |-> 0,
     ans |-> <<>>, pos |-> pos, obj |-> 0, asked |-> NoStep]

\* What one send produces: out is the ParseStep emitted (NoStep for a final
\* result, which is then res), g the generator afterwards, hp the heap.
Yield(out, res, g, hp) ==
    [out |-> out, res |-> res, g |-> [g EXCEPT !.asked = out], hp |-> hp]

Final(res, g, hp) ==
    Yield(NoStep, res,
          [g EXCEPT !.pc = IF res = ParseFailure THEN "failed" ELSE "ended"], hp)

\* Fault of _parse_nothing: None is taken as Literal(None), one element of a
\* list source that is the value None.
_parse_nothing_as_literal(g, next, hp) ==
    IF ~is_str /\ g.start < Len(source) /\ source[g.start + 1] = NoneVal
    THEN Final(ParseResult(NoneVal, g.start + 1), g, hp)
    ELSE Final(ParseFailure, g, hp)

_parse_nothing(g, next, hp) == Final(ParseResult(NoneVal, g.start), g, hp)

\* Fault of _parse_text: the slice, which the end of the source cuts short,
\* is compared with as much of the term only (term.startswith(part)).
_parse_text_cut_short(g, next, hp) ==
    LET s == g.term.s
        pos == g.start
        end == pos + Len(s)
        part == Slice(source, pos, end)
    IN  Final(IF part = SubSeq(s, 1, Len(part))
              THEN ParseResult(StrVal(s), end) ELSE ParseFailure, g, hp)

\* Fault of _parse_text: the end of a match is computed with the wrong sign.
_parse_text_backwards(g, next, hp) ==
    LET s == g.term.s
        pos == g.start
        part == Slice(source, pos, pos + Len(s))
    IN  Final(IF part = s THEN ParseResult(StrVal(s), pos - Len(s))
                          ELSE ParseFailure, g, hp)

_parse_text(g, next, hp) ==
    LET s == g.term.s
        pos == g.start
        end == pos + Len(s)
        part == Slice(source, pos, end)
    IN  Final(IF part = s THEN ParseResult(StrVal(s), end) ELSE ParseFailure, g, hp)

\* Whether getattr(x, name) finds the attribute.
HasAttr(x, name) == name \in DOMAIN x

\* Fault of _parse_token: a matched token advances the position by the length
\* of the term, as a matched string does on a character source.
_parse_token_by_length(g, next, hp) ==
    LET s == g.term.s
        pos == g.start
    IN  IF pos >= Len(source)
        THEN Final(ParseFailure, g, hp)
        ELSE IF source[pos + 1].content = s
             THEN Final(ParseResult(StrVal(s), pos + Len(s)), g, hp)
             ELSE Final(ParseFailure, g, hp)

_parse_token(g, next, hp) ==
    LET s == g.term.s
        pos == g.start
    IN  IF pos >= Len(source)
        THEN Final(ParseFailure, g, hp)
        ELSE IF ~HasAttr(source[pos + 1], "content")
             THEN Final(Exc("AttributeError"), g, hp)
             ELSE IF source[pos + 1].content = s
                  THEN Final(ParseResult(StrVal(s), pos + 1), g, hp)
                  ELSE Final(ParseFailure, g, hp)

\* Fault of _parse_tuple: a failed item does not end the tuple.
_parse_tuple_ignoring_failure(g, next, hp) ==
    LET items == g.term.items
        vals == IF g.pc = "new" THEN <<>> ELSE Append(g.ans, next.value)
        pos == IF g.pc = "new" THEN g.start ELSE next.pos
        n == Len(vals)
        g2 == [g EXCEPT !.pc = "wait", !.i = n + 1, !.ans = vals, !.pos = pos]
    IN  IF n = Len(items)
        THEN Final(ParseResult(TupleVal(vals), pos), g2, hp)
        ELSE Yield(ParseStep(items[n + 1], pos), NoAns, g2, hp)

\* Fault of _parse_tuple: each value is put in front of the ones before it
\* (ans.insert(0, ...)), so the tuple comes out in reverse.
_parse_tuple_prepending(g, next, hp) ==
    LET items == g.term.items
        failed == g.pc # "new" /\ next = ParseFailure
        vals == IF g.pc = "new" THEN <<>> ELSE <<next.value>> \o g.ans
        pos == IF g.pc = "new" THEN g.start ELSE next.pos
        n == Len(vals)
        g2 == [g EXCEPT !.pc = "wait", !.i = n + 1, !.ans = vals, !.pos = pos]
    IN  IF failed
        THEN Final(ParseFailure, g, hp)
        ELSE IF n = Len(items)
             THEN Final(ParseResult(TupleVal(vals), pos), g2, hp)
             ELSE Yield(ParseStep(items[n + 1], pos), NoAns, g2, hp)

\* _parse_tuple: vals holds the values of the first n items and pos is where
\* item n stopped.
_parse_tuple(g, next, hp) ==
    LET items == g.term.items
        failed == g.pc # "new" /\ next = ParseFailure
        vals == IF g.pc = "new" THEN <<>> ELSE Append(g.ans, next.value)
        pos == IF g.pc = "new" THEN g.start ELSE next.pos
        n == Len(vals)
        g2 == [g EXCEPT !.pc = "wait", !.i = n + 1, !.ans = vals, !.pos = pos]
    IN  IF failed
        THEN Final(ParseFailure, g, hp)
        ELSE IF n = Len(items)
             THEN Final(ParseResult(TupleVal(vals), pos), g2, hp)
             ELSE Yield(ParseStep(items[n + 1], pos), NoAns, g2, hp)

\* setattr(obj, field, value) on the instance at address id.
SetAttr(hp, id, field, value) ==
    [hp EXCEPT ![id].attrs = Append(@, <<field, value>>)]

\* Fault of _parse_simple_struct: every instance of a class is the first one
\* allocated for it (ans is made once, not once per parse of the class).
_parse_simple_struct_shared(g, next, hp) ==
    LET cls == g.term.s[1]
        fields == fieldmap[cls]
        failed == g.pc # "new" /\ next = ParseFailure
        old == {a \in 1..Len(hp) : hp[a].cls = cls}
        id == IF g.pc # "new" THEN g.obj
              ELSE IF old = {} THEN Len(hp) + 1
              ELSE CHOOSE a \in old : \A b \in old : a <= b
        n == IF g.pc = "new" THEN 0 ELSE g.i
        hp1 == IF g.pc = "new"
               THEN (IF old = {} THEN Append(hp, [cls |-> cls, attrs |-> <<>>]) ELSE hp)
               ELSE SetAttr(hp, id, fields[n][1], next.value)
        pos == IF g.pc = "new" THEN g.start ELSE next.pos
        g2 == [g EXCEPT !.pc = "wait", !.i = n + 1, !.pos = pos, !.obj = id]
    IN  IF failed
        THEN Final(ParseFailure, g, hp)
        ELSE IF n = Len(fields)
             THEN Final(ParseResult(InstVal(id), pos), g2, hp1)
             ELSE Yield(ParseStep(fields[n + 1][2], pos), NoAns, g2, hp1)

_parse_simple_struct(g, next, hp) ==
    LET cls == g.term.s[1]
        fields == fieldmap[cls]
        failed == g.pc # "new" /\ next = ParseFailure
        id == IF g.pc = "new" THEN Len(hp) + 1 ELSE g.obj
        n == IF g.pc = "new" THEN 0 ELSE g.i
        hp1 == IF g.pc = "new"
               THEN Append(hp, [cls |-> cls, attrs |-> <<>>])
               ELSE SetAttr(hp, id, fields[n][1], next.value)
        pos == IF g.pc = "new" THEN g.start ELSE next.pos
        g2 == [g EXCEPT !.pc = "wait", !.i = n + 1, !.pos = pos, !.obj = id]
    IN  IF failed
        THEN Final(ParseFailure, g, hp)
        ELSE IF n = Len(fields)
             THEN Final(ParseResult(InstVal(id), pos), g2, hp1)
             ELSE Yield(ParseStep(fields[n + 1][2], pos), NoAns, g2, hp1)

\* Left(a, b).parse: a, then b where a stopped; a's value.
LeftParse(g, next, hp) ==
    LET a == g.term.items[1]
        b == g.term.items[2]
    IN  IF g.pc = "new"
        THEN Yield(ParseStep(a, g.start), NoAns, [g EXCEPT !.pc = "wait", !.i = 1], hp)
        ELSE IF next = ParseFailure
             THEN Final(ParseFailure, g, hp)
             ELSE IF g.i = 1
                  THEN Yield(ParseStep(b, next.pos), NoAns,
                             [g EXCEPT !.i = 2, !.ans = <<next.value>>,
                                       !.pos = next.pos], hp)
                  ELSE Final(ParseResult(g.ans[1], next.pos), g, hp)

\* Right(a, b).parse: a, then b where a stopped; b's value.
RightParse(g, next, hp) ==
    LET a == g.term.items[1]
        b == g.term.items[2]
    IN  IF g.pc = "new"
        THEN Yield(ParseStep(a, g.start), NoAns, [g EXCEPT !.pc = "wait", !.i = 1], hp)
        ELSE IF next = ParseFailure
             THEN Final(ParseFailure, g, hp)
             ELSE IF g.i = 1
                  THEN Yield(ParseStep(b, next.pos), NoAns,
                             [g EXCEPT !.i = 2, !.pos = next.pos], hp)
                  ELSE Final(next, g, hp)

\* Expect(t).parse: t; on success t's value at the position Expect began at.
ExpectParse(g, next, hp) ==
    IF g.pc = "new"
    THEN Yield(ParseStep(g.term.items[1], g.start), NoAns,
               [g EXCEPT !.pc = "wait", !.i = 1], hp)
    ELSE IF next = ParseFailure
         THEN Final(ParseFailure, g, hp)
         ELSE Final(ParseResult(next.value, g.start), g, hp)

\* Backtrack().parse: the position before pos, when there is one.
BacktrackParse(g, next, hp) ==
    Final(IF g.start > 0 THEN ParseResult(NoneVal, g.start - 1)
                         ELSE ParseFailure, g, hp)

\* list(op) of a tuple or a string.
ListOf(v) ==
    IF v.k = "tuple" THEN v.items ELSE [n \in 1..Len(v.s) |-> StrVal(<<v.s[n]>>)]

\* build(left, op, right) of _assoc_struct_builder(cls, fields) on heap hp:
\* the instance and the heap with it.
_assoc_struct_builder(cls, fields, left, op, right, hp) ==
    LET values == <<left>> \o ListOf(op) \o <<right>>
        n == Min(Len(fields), Len(values))
    IN  [value |-> InstVal(Len(hp) + 1),
         hp |-> Append(hp, [cls |-> cls,
                            attrs |-> [i \in 1..n |-> <<fields[i][1], values[i]>>]])]

\* The build of the reducer term t: the default 3-tuple, or the builder of
\* the assoc Struct class the reducer is the delegate of.
Build(t, left, op, right, hp) ==
    IF t.s = <<>>
    THEN [value |-> TupleVal(<<left, op, right>>), hp |-> hp]
    ELSE _assoc_struct_builder(t.s[1], fieldmap[t.s[1]], left, op, right, hp)

\* ReduceLeft.parse: first into acc; then the sequence (middle, last) from
\* where the last answer stopped, acc := build(acc, op, right), until the
\* sequence fails. (The middle and last terms of the model's reducers consume
\* input, so every round advances.)
ReduceLeftParse(g, next, hp) ==
    LET first == g.term.items[1]
        seq == Tup(<<g.term.items[2], g.term.items[3]>>)
    IN  IF g.pc = "new"
        THEN Yield(ParseStep(first, g.start), NoAns,
                   [g EXCEPT !.pc = "wait", !.i = 1], hp)
        ELSE IF g.i = 1
             THEN IF next = ParseFailure
                  THEN Final(ParseFailure, g, hp)
                  ELSE Yield(ParseStep(seq, next.pos), NoAns,
                             [g EXCEPT !.i = 2, !.ans = <<next.value>>,
                                       !.pos = next.pos], hp)
             ELSE IF next = ParseFailure
                  THEN Final(ParseResult(g.ans[1], g.pos), g, hp)
                  ELSE LET b == Build(g.term, g.ans[1], next.value.items[1],
                                      next.value.items[2], hp)
                       IN  Yield(ParseStep(seq, next.pos), NoAns,
                                 [g EXCEPT !.ans = <<b.value>>, !.pos = next.pos],
                                 b.hp)

\* The fold of ReduceRight: result := build(left_i, op_i, result) for
\* i = n .. 1 over the prefixes (left_i, op_i).
RECURSIVE FoldRight(_, _, _, _, _)
FoldRight(t, prefixes, n, result, hp) ==
    IF n = 0
    THEN [value |-> result, hp |-> hp]
    ELSE LET b == Build(t, prefixes[n].items[1], prefixes[n].items[2], result, hp)
         IN  FoldRight(t, prefixes, n - 1, b.value, b.hp)

\* ReduceRight.parse: prefixes (first, middle) as long as they succeed, at
\* least one; then last; then the fold from the right.
ReduceRightParse(g, next, hp) ==
    LET prefix == Tup(<<g.term.items[1], g.term.items[2]>>)
        last == g.term.items[3]
    IN  IF g.pc = "new"
        THEN Yield(ParseStep(prefix, g.start), NoAns,
                   [g EXCEPT !.pc = "wait", !.i = 1], hp)
        ELSE IF g.i = 1
             THEN IF next # ParseFailure
                  THEN Yield(ParseStep(prefix, next.pos), NoAns,
                             [g EXCEPT !.ans = Append(@, next.value),
                                       !.pos = next.pos], hp)
                  ELSE IF g.ans = <<>>
                       THEN Final(ParseFailure, g, hp)
                       ELSE Yield(ParseStep(last, g.pos), NoAns,
                                  [g EXCEPT !.i = 2], hp)
             ELSE IF next = ParseFailure
                  THEN Final(ParseFailure, g, hp)
                  ELSE LET f == FoldRight(g.term, g.ans, Len(g.ans), next.value, hp)
                       IN  Final(ParseResult(f.value, next.pos), g, f.hp)

\* End.parse: succeeds iff pos is the length of the source; consumes nothing.
EndParse(g, next, hp) ==
    Final(IF g.start = Len(source) THEN ParseResult(NoneVal, g.start)
                                     ELSE ParseFailure, g, hp)

\* Or(a, b).parse: a; on failure b at the same position.
OrParse(g, next, hp) ==
    LET a == g.term.items[1]
        b == g.term.items[2]
    IN  IF g.pc = "new"
        THEN Yield(ParseStep(a, g.start), NoAns, [g EXCEPT !.pc = "wait", !.i = 1], hp)
        ELSE IF g.i = 1 /\ next = ParseFailure
             THEN Yield(ParseStep(b, g.start), NoAns, [g EXCEPT !.i = 2], hp)
             ELSE Final(next, g, hp)

\* The character a pattern of the model repeats, and the least number of
\* repetitions it takes.
PatChar(pat) == IF pat = "a+" THEN "a" ELSE "b"

PatMin(pat) == IF pat = "a+" THEN 1 ELSE 0

\* How many times the character c stands in the source from position pos on.
RECURSIVE RunLen(_, _)
RunLen(c, pos) ==
    IF pos < Len(source) /\ source[pos + 1] = c
    THEN 1 + RunLen(c, pos + 1)
    ELSE 0

\* term.match(self.source, pos).end(), or -1 when match returns None.
MatchEnd(pat, pos) ==
    LET n == RunLen(PatChar(pat), pos)
    IN  IF n >= PatMin(pat) THEN pos + n ELSE 0 - 1

\* Fault of _parse_regex: no test of the source's type, so that on a source
\* that is no string term.match raises TypeError.
_parse_regex_unguarded(g, next, hp) ==
    LET end == MatchEnd(g.term.s[1], g.start)
    IN  IF ~is_str
        THEN Final(Exc("TypeError"), g, hp)
        ELSE IF end >= 0
             THEN Final(ParseResult(MatchVal(Slice(source, g.start, end)), end),
                        g, hp)
             ELSE Final(ParseFailure, g, hp)

_parse_regex(g, next, hp) ==
    LET end == MatchEnd(g.term.s[1], g.start)
    IN  IF ~is_str
        THEN Final(ParseFailure, g, hp)
        ELSE IF end >= 0
             THEN Final(ParseResult(MatchVal(Slice(source, g.start, end)), end),
                        g, hp)
             ELSE Final(ParseFailure, g, hp)

\* Literal(v).parse: one element of the source equal to v.
LiteralParse(g, next, hp) ==
    LET v == ValueOf(g.term.s)
        pos == g.start
    IN  IF pos < Len(source) /\ source[pos + 1] = v
        THEN Final(ParseResult(v, pos + 1), g, hp)
        ELSE Final(ParseFailure, g, hp)

\* List(t).parse: t again and again from where the last one stopped; ends
\* with the values collected so far when t fails or succeeds without
\* advancing the position (the value of that iteration is left out).
ListParse(g, next, hp) ==
    LET t == g.term.items[1]
    IN  IF g.pc = "new"
        THEN Yield(ParseStep(t, g.start), NoAns, [g EXCEPT !.pc = "wait", !.i = 1], hp)
        ELSE IF next = ParseFailure \/ next.pos <= g.pos
             THEN Final(ParseResult(ListVal(g.ans), g.pos), g, hp)
             ELSE Yield(ParseStep(t, next.pos), NoAns,
                        [g EXCEPT !.i = @ + 1, !.ans = Append(@, next.value),
                                  !.pos = next.pos], hp)

\* A send to a generator suspended at a yield of a final result: the
\* statements after that yield run. After 'yield ParseFailure' these are
\* self.source[pos] with pos >= len(source) in _parse_token, term.match on a
\* source that is no string in _parse_regex, and next.value with next the
\* ParseFailure in _parse_tuple and _parse_simple_struct; everywhere else the
\* generator function returns.
AfterFinal(g, hp) ==
    LET exc == CASE g.pc = "failed" /\ g.gen = "_parse_token"
                        /\ g.start >= Len(source) -> "IndexError"
                 [] g.pc = "failed" /\ g.gen = "_parse_regex" /\ ~is_str -> "TypeError"
                 [] g.pc = "failed"
                        /\ g.gen \in {"_parse_tuple", "_parse_simple_struct"} ->
                            "AttributeError"
                 [] OTHER -> "StopIteration"
    IN  Yield(NoStep, Exc(exc), [g EXCEPT !.pc = "ended"], hp)

\* generator.send(next)
Send(g, next, hp) ==
    CASE g.pc \in {"failed", "ended"} -> AfterFinal(g, hp)
      [] g.gen = "_parse_nothing" -> _parse_nothing(g, next, hp)
      [] g.gen = "_parse_simple_struct" -> _parse_simple_struct(g, next, hp)
      [] g.gen = "_parse_text" -> _parse_text(g, next, hp)
      [] g.gen = "_parse_token" -> _parse_token(g, next, hp)
      [] g.gen = "_parse_tuple" -> _parse_tuple(g, next, hp)
      [] g.gen = "Left.parse" -> LeftParse(g, next, hp)
      [] g.gen = "End.parse" -> EndParse(g, next, hp)
      [] g.gen = "Or.parse" -> OrParse(g, next, hp)
      [] g.gen = "Literal.parse" -> LiteralParse(g, next, hp)
      [] g.gen = "_parse_regex" -> _parse_regex(g, next, hp)
      [] g.gen = "Right.parse" -> RightParse(g, next, hp)
      [] g.gen = "Expect.parse" -> ExpectParse(g, next, hp)
      [] g.gen = "Backtrack.parse" -> BacktrackParse(g, next, hp)
      [] g.gen = "ReduceLeft.parse" -> ReduceLeftParse(g, next, hp)
      [] g.gen = "ReduceRight.parse" -> ReduceRightParse(g, next, hp)
      [] g.gen = "List.parse" -> ListParse(g, next, hp)

(* ------------------------------- driver ------------------------------- *)

\* The while loop of _start: ForwardRef.preparse() until a concrete term.
RECURSIVE Unwrap(_)
Unwrap(t) == IF t.k = "ref" THEN Unwrap(RefTarget(t.s[1])) ELSE t

\* _parse_struct's caching of the class's fields.
_parse_struct(t, fm) ==
    IF t.k = "struct" /\ t.s[1] \notin DOMAIN fm
    THEN Put(fm, t.s[1], _struct_fields(t.s[1]))
    ELSE fm

\* The delegate _parse_assoc_struct builds for the assoc class cls with the
\* given fields: a ReduceLeft or ReduceRight whose build is the class's
\* builder (s names the class).
Delegate(cls, fields) ==
    [k |-> IF StructBase(cls) = "LeftAssoc" THEN "reduceleft" ELSE "reduceright",
     s |-> <<cls>>,
     items |-> <<fields[1][2],
                 Tup([n \in 1..(Len(fields) - 2) |-> fields[n + 1][2]]),
                 fields[Len(fields)][2]>>]

\* Fault of _parse_assoc_struct: the delegate is built on every parse of the
\* class, not only when the class has none.
_parse_assoc_struct_rebuilding(t, dl, fm) ==
    IF t.k = "struct" /\ StructBase(t.s[1]) # "Struct"
    THEN Put(dl, t.s[1], [term |-> Delegate(t.s[1], fm[t.s[1]]),
                          id |-> Cardinality(DOMAIN dl) + 1])
    ELSE dl

\* _parse_assoc_struct's caching of the class's delegate: delegates dl after
\* _parse_struct met t with fieldmap fm. id tells the delegate objects apart
\* (the model counts them as they are built).
_parse_assoc_struct(t, dl, fm) ==
    IF t.k = "struct" /\ StructBase(t.s[1]) # "Struct" /\ t.s[1] \notin DOMAIN dl
    THEN Put(dl, t.s[1], [term |-> Delegate(t.s[1], fm[t.s[1]]),
                          id |-> Cardinality(DOMAIN dl) + 1])
    ELSE dl

\* _parse (with _parse_struct): the generator for an unwrapped term. A term
\* that reaches term.parse and has no such attribute gives no generator: the
\* lookup raises AttributeError.
_parse(t, pos) ==
    LET assoc == t.k = "struct" /\ StructBase(t.s[1]) # "Struct"
        dl == _parse_assoc_struct(t, delegates, _parse_struct(t, fieldmap))
        u == IF assoc THEN dl[t.s[1]].term ELSE t
        gen == CASE u.k = "none" -> "_parse_nothing"
                 [] u.k = "struct" -> "_parse_simple_struct"
                 [] u.k = "str" -> IF is_str THEN "_parse_text" ELSE "_parse_token"
                 [] u.k = "tuple" -> "_parse_tuple"
                 [] u.k = "left" -> "Left.parse"
                 [] u.k = "end" -> "End.parse"
                 [] u.k = "or" -> "Or.parse"
                 [] u.k = "literal" -> "Literal.parse"
                 [] u.k = "regex" -> "_parse_regex"
                 [] u.k = "right" -> "Right.parse"
                 [] u.k = "expect" -> "Expect.parse"
                 [] u.k = "backtrack" -> "Backtrack.parse"
                 [] u.k = "reduceleft" -> "ReduceLeft.parse"
                 [] u.k = "reduceright" -> "ReduceRight.parse"
                 [] u.k = "list" -> "List.parse"
                 [] u.k = "plain" -> "AttributeError"
    IN  Generator(gen, u, pos)

\* Whether _parse raised instead of returning generator g.
Raised(g) == IF g.gen = "AttributeError" THEN g.gen ELSE ""

\* An element of Parser.stack.
Frame(key, generator) == [key |-> key, gen |-> generator]

\* Whether _start finds the key of the request (t, pos) in memo m.
Hit(t, pos, m) == <<Unwrap(t), pos>> \in DOMAIN m

\* Fault of _start: the key is made of the term as requested, a ForwardRef
\* included, and only the generator gets the unwrapped term.
_start_keyed_by_request(t, pos, m, st, fm) ==
    LET key == <<t, pos>>
    IN  IF key \in DOMAIN m
        THEN [memo |-> m, stack |-> st, fieldmap |-> fm, ans |-> m[key],
              delegates |-> delegates, exc |-> ""]
        ELSE [memo |-> Put(m, key, ParseFailure),
              stack |-> Append(st, Frame(key, _parse(Unwrap(t), pos))),
              fieldmap |-> _parse_struct(Unwrap(t), fm),
              ans |-> NoAns,
              delegates |-> _parse_assoc_struct(Unwrap(t), delegates,
                                                _parse_struct(Unwrap(t), fm)),
              exc |-> Raised(_parse(Unwrap(t), pos))]

\* Fault of _start: the memo is not consulted, every request is seeded and
\* pushed.
_start_without_lookup(t, pos, m, st, fm) ==
    LET key == <<Unwrap(t), pos>>
    IN  [memo |-> Put(m, key, ParseFailure),
         stack |-> Append(st, Frame(key, _parse(key[1], pos))),
         fieldmap |-> _parse_struct(key[1], fm),
         ans |-> NoAns,
         delegates |-> _parse_assoc_struct(key[1], delegates,
                                           _parse_struct(key[1], fm)),
         exc |-> Raised(_parse(key[1], pos))]

\* Fault of _start: the request is looked up, but no FAILURE seed is written
\* before the generator is pushed.
_start_without_seed(t, pos, m, st, fm) ==
    LET key == <<Unwrap(t), pos>>
    IN  IF key \in DOMAIN m
        THEN [memo |-> m, stack |-> st, fieldmap |-> fm, ans |-> m[key],
              delegates |-> delegates, exc |-> ""]
        ELSE IF Raised(_parse(key[1], pos)) # ""
             THEN [memo |-> m, stack |-> st, fieldmap |-> fm, ans |-> NoAns,
                   delegates |-> delegates,
                   exc |-> Raised(_parse(key[1], pos))]
             ELSE [memo |-> m,
                   stack |-> Append(st, Frame(key, _parse(key[1], pos))),
                   fieldmap |-> _parse_struct(key[1], fm),
                   ans |-> NoAns,
                   delegates |-> _parse_assoc_struct(key[1], delegates,
                                                     _parse_struct(key[1], fm)),
                   exc |-> ""]

\* _start(t, pos) on memo m, stack st and fieldmap fm: what it leaves in
\* them and in self.delegates, and what it returns (ans), or the exception
\* that left it (exc).
_start(t, pos, m, st, fm) ==
    LET key == <<Unwrap(t), pos>>
    IN  IF key \in DOMAIN m
        THEN [memo |-> m, stack |-> st, fieldmap |-> fm, ans |-> m[key],
              delegates |-> delegates, exc |-> ""]
        ELSE IF Raised(_parse(key[1], pos)) # ""
             THEN [memo |-> Put(m, key, ParseFailure), stack |-> st,
                   fieldmap |-> fm, ans |-> NoAns,
                   delegates |-> delegates,
                   exc |-> Raised(_parse(key[1], pos))]
             ELSE [memo |-> Put(m, key, ParseFailure),
                   stack |-> Append(st, Frame(key, _parse(key[1], pos))),
                   fieldmap |-> _parse_struct(key[1], fm),
                   ans |-> NoAns,
                   delegates |-> _parse_assoc_struct(key[1], delegates,
                                                     _parse_struct(key[1], fm)),
                   exc |-> ""]

\* Fault of run: the final result is not written to the memo.
Memoize_skipped(m, key, res) == m

\* Fault of run: the final result is written over the whole memo.
Memoize_everywhere(m, key, res) == [x \in DOMAIN m |-> res]

\* run: self.memo[key] = ans
Memoize(m, key, res) == Put(m, key, res)

\* Fault of run: the frame is popped only when its generator ended with a
\* success; after a FAILURE the generator stays on the stack as it is.
Pop_on_success(st, g, res) ==
    IF res = ParseFailure
    THEN [st EXCEPT ![Len(st)].gen = g]
    ELSE SubSeq(st, 1, Len(st) - 1)

\* run: self.stack.pop(), when the top generator g has emitted the final
\* result res.
Pop(st, g, res) == SubSeq(st, 1, Len(st) - 1)

\* Faults of parse / parse_prefix: parse without its End, parse_prefix with one.
whole_without_End == term

whole_always_End == Left(term, End)

\* parse's term Left(term, End); parse_prefix runs the term as given.
whole == IF entry = "parse" THEN Left(term, End) ELSE term

OnStack(key, st) == \E j \in 1..Len(st) : st[j].key = key

\* A request for key answered with res; pending: key's frame was on the stack.
Answer(key, res, pending) == [key |-> key, res |-> res, pending |-> pending]

\* Parser(source) as Parser.__init__ leaves it, with the entry point and term
\* of the invocation it serves; who names the invocation.
Parser(who, e, t, src, str) ==
    [who |-> who, entry |-> e, term |-> t, source |-> src, is_str |-> str,
     memo |-> EmptyMap, stack |-> <<>>, fieldmap |-> EmptyMap,
     delegates |-> EmptyMap, ans |-> NoAns, req |-> NoStep, phase |-> "init",
     ret |-> NoRet, answers |-> <<>>]

\* There is no other invocation.
NoParser == Parser("", "parse", NoneTerm, <<>>, TRUE)

Init ==
    /\ entry \in {"parse", "parse_prefix"}
    /\ \/ is_str = TRUE /\ term \in Roots /\ source \in TextSources
       \/ is_str = TRUE /\ term \in SumRoots /\ source \in SumSources
       \/ is_str = FALSE /\ term \in Roots /\ source \in TokenSources
       \/ is_str = FALSE /\ term \in ListRoots /\ source \in ListSources
       \/ is_str = TRUE /\ term \in RepeatRoots /\ source \in TextSources
    /\ memo = EmptyMap
    /\ stack = <<>>
    /\ fieldmap = EmptyMap
    /\ heap = <<>>
    /\ ans = NoAns
    /\ req = NoStep
    /\ phase = "init"
    /\ ret = NoRet
    /\ answers = <<>>
    /\ delegates = EmptyMap
    /\ calls = <<>>
    /\ parked = NoParser

\* run: ans = self._start(term, 0)
Begin ==
    /\ phase = "init"
    /\ LET r == _start(whole, 0, memo, stack, fieldmap)
       IN  /\ r.exc = ""
           /\ memo' = r.memo
           /\ stack' = r.stack
           /\ fieldmap' = r.fieldmap
           /\ ans' = r.ans
           /\ delegates' = r.delegates
    /\ phase' = "loop"
    /\ UNCHANGED <<entry, term, source, is_str, heap, req, ret, answers,
                   calls, parked>>

\* The top suspension after top.send(ans), with what it emitted.
Resumed == Send(stack[Len(stack)].gen, ans, heap)

\* One iteration of run's loop in which the top suspension emits a ParseStep.
Request ==
    /\ phase = "loop"
    /\ stack # <<>>
    /\ Len(stack) < MaxDepth
    /\ Resumed.out.t = "step"
    /\ LET o == Resumed
           st == [stack EXCEPT ![Len(stack)].gen = o.g]
           r == _start(o.out.term, o.out.pos, memo, st, fieldmap)
           key == <<Unwrap(o.out.term), o.out.pos>>
       IN  /\ r.exc = ""
           /\ memo' = r.memo
           /\ stack' = r.stack
           /\ fieldmap' = r.fieldmap
           /\ ans' = r.ans
           /\ heap' = o.hp
           /\ req' = o.out
           /\ answers' = IF key \in DOMAIN memo
                         THEN Append(answers, Answer(key, memo[key], OnStack(key, stack)))
                         ELSE answers
           /\ delegates' = r.delegates
    /\ UNCHANGED <<entry, term, source, is_str, phase, ret,
                   calls, parked>>

\* One iteration of run's loop in which the top suspension emits its final
\* result: the frame is popped and the result written to the memo.
Complete ==
    /\ phase = "loop"
    /\ stack # <<>>
    /\ Resumed.out.t = "nostep"
    /\ Resumed.res.t \in {"result", "failure"}
    /\ LET o == Resumed
           key == stack[Len(stack)].key
       IN  /\ stack' = Pop(stack, o.g, o.res)
           /\ memo' = Memoize(memo, key, o.res)
           /\ ans' = o.res
           /\ heap' = o.hp
           /\ answers' = Append(answers, Answer(key, o.res, FALSE))
    /\ req' = NoStep
    /\ UNCHANGED <<entry, term, source, is_str, fieldmap, phase, ret,
                   delegates, calls, parked>>

\* run returns ans; parse returns ans.value.
Return ==
    /\ phase = "loop"
    /\ stack = <<>>
    /\ ans # ParseFailure
    /\ phase' = "returned"
    /\ ret' = IF entry = "parse" THEN ParseValue(ans.value) ELSE ans
    /\ UNCHANGED <<entry, term, source, is_str, memo, stack, fieldmap, heap,
                   ans, req, answers,
                   delegates, calls, parked>>

\* run raises ParseError.
Raise ==
    /\ phase = "loop"
    /\ stack = <<>>
    /\ ans = ParseFailure
    /\ phase' = "raised"
    /\ UNCHANGED <<entry, term, source, is_str, memo, stack, fieldmap, heap,
                   ans, req, ret, answers,
                   delegates, calls, parked>>

\* An exception other than ParseError leaves _start (from _parse) or the
\* resumed suspension, and so run and the entry point.
Crash ==
    /\ \/ /\ phase = "init"
          /\ LET r == _start(whole, 0, memo, stack, fieldmap)
             IN  /\ r.exc # ""
                 /\ memo' = r.memo
                 /\ ret' = Exc(r.exc)
          /\ UNCHANGED <<stack, heap, req>>
       \/ /\ phase = "loop"
          /\ stack # <<>>
          /\ Resumed.out.t = "step"
          /\ LET o == Resumed
                 st == [stack EXCEPT ![Len(stack)].gen = o.g]
                 r == _start(o.out.term, o.out.pos, memo, st, fieldmap)
             IN  /\ r.exc # ""
                 /\ memo' = r.memo
                 /\ stack' = r.stack
                 /\ heap' = o.hp
                 /\ req' = o.out
                 /\ ret' = Exc(r.exc)
       \/ /\ phase = "loop"
          /\ stack # <<>>
          /\ Resumed.out.t = "nostep"
          /\ Resumed.res.t \notin {"result", "failure"}
          /\ ret' = Resumed.res
          /\ UNCHANGED <<memo, stack, heap, req>>
    /\ phase' = "crashed"
    /\ UNCHANGED <<entry, term, source, is_str, fieldmap, ans, answers,
                   delegates, calls, parked>>

Next == Begin \/ Request \/ Complete \/ Return \/ Raise \/ Crash

Spec == Init /\ [][Next]_vars

\* The invocation that is running, as a Parser record.
Own(who) ==
    [who |-> who, entry |-> entry, term |-> term, source |-> source,
     is_str |-> is_str, memo |-> memo, stack |-> stack, fieldmap |-> fieldmap,
     delegates |-> delegates, ans |-> ans, req |-> req, phase |-> phase,
     ret |-> ret, answers |-> answers]

\* The invocation p is the one that runs from now on.
Load(p) ==
    /\ entry' = p.entry
    /\ term' = p.term
    /\ source' = p.source
    /\ is_str' = p.is_str
    /\ memo' = p.memo
    /\ stack' = p.stack
    /\ fieldmap' = p.fieldmap
    /\ delegates' = p.delegates
    /\ ans' = p.ans
    /\ req' = p.req
    /\ phase' = p.phase
    /\ ret' = p.ret
    /\ answers' = p.answers

\* A value with every Struct instance replaced by its class, field names and
\* field values: what two values have in common when they differ only in
\* which objects they are.
RECURSIVE Deep(_)
Deep(v) ==
    CASE v.k = "inst" ->
            LET o == heap[v.id]
            IN  [k |-> "inst",
                 s |-> <<o.cls>> \o [n \in 1..Len(o.attrs) |-> o.attrs[n][1]],
                 items |-> [n \in 1..Len(o.attrs) |-> Deep(o.attrs[n][2])],
                 id |-> 0]
      [] v.k \in {"tuple", "list"} ->
            [v EXCEPT !.items = [n \in 1..Len(v.items) |-> Deep(v.items[n])]]
      [] OTHER -> v

\* How an invocation that ended in phase ph with ret r ended.
Outcome(ph, r) == [phase |-> ph, t |-> r.t, value |-> Deep(r.value), pos |-> r.pos]

\* After parse(term, source) has ended, the caller calls
\* parse(Left(term, End), source): a new Parser on the same source.
Again ==
    /\ phase \in {"returned", "raised", "crashed"}
    /\ entry = "parse"
    /\ calls = <<>>
    /\ calls' = <<Outcome(phase, ret)>>
    /\ Load(Parser("", "parse", Left(term, End), source, is_str))
    /\ UNCHANGED <<heap, parked>>

TwiceNext == Next \/ Again

TwiceSpec == Init /\ [][TwiceNext]_vars

\* The terms two invocations running at the same time are given.
PairRoots == {Ref("B"), StructT("Pair")}

InitPair == Init /\ is_str /\ term \in PairRoots

Other(who) == IF who = "A" THEN "B" ELSE "A"

\* Invocation A has run alone and ended: invocation B, of some term on the
\* same source, now runs alone on its own new Parser.
Second ==
    /\ phase \in {"returned", "raised", "crashed"}
    /\ calls = <<>>
    /\ calls' = <<Outcome(phase, ret)>>
    /\ parked' = Parser("A", entry, term, source, is_str)
    /\ \E t \in PairRoots : Load(Parser("B", entry, t, source, is_str))
    /\ UNCHANGED heap

\* Both have run alone: the same two invocations are made again, each on a
\* new Parser, to run at the same time.
Fork ==
    /\ phase \in {"returned", "raised", "crashed"}
    /\ Len(calls) = 1
    /\ calls' = Append(calls, Outcome(phase, ret))
    /\ Load(Parser("B", entry, term, source, is_str))
    /\ UNCHANGED <<heap, parked>>

\* Fault of Parser.__init__: memo is one dict shared by all Parsers (a class
\* attribute), so an invocation goes on with the memo the other one left.
Resume_sharing_memo(p, cur) == [p EXCEPT !.memo = cur.memo]

\* The attributes the invocation p goes on with when cur stops running: its
\* own, as __init__ made them and its own steps changed them.
Resume(p, cur) == p

\* The scheduler lets the other invocation run: the steps of the two
\* drivers interleave in any order.
Switch ==
    /\ Len(calls) = 2
    /\ parked.phase \in {"init", "loop"}
    /\ parked' = Own(Other(parked.who))
    /\ Load(Resume(parked, Own(Other(parked.who))))
    /\ UNCHANGED <<heap, calls>>

\* No term of PairRoots raises anything but ParseError, so Crash has no part.
PairNext ==
    Begin \/ Request \/ Complete \/ Return \/ Raise \/ Second \/ Fork \/ Switch

PairSpec == InitPair /\ [][PairNext]_vars

\* The parsers whose grammar is made of string, tuple, Struct, None and
\* ForwardRef terms only, on every source.
InitPlain == Init /\ term \in PlainRoots

\* The parsers whose grammar has a repetition.
InitRepeat == Init /\ term \in RepeatRoots

RepeatSpec == InitRepeat /\ [][Next]_vars /\ WF_vars(Next)

\* run's loop is sequential code: it keeps taking steps until it returns.
LiveSpec == InitPlain /\ [][Next]_vars /\ WF_vars(Next)

(* ============================== claims =============================== *)

Done == phase \in {"returned", "raised"}

\* The answer the parse computed for the user's term at position 0.
RootKey == <<Unwrap(term), 0>>

(* C1: parse(term, source) returns term's value iff term at position 0
   succeeds and stops at len(source); in every other case (term fails, or it
   succeeds and leaves input unconsumed) it raises ParseError and returns
   nothing. *)
C1_ParseNeedsWholeSource ==
    (entry = "parse" /\ Done) =>
        /\ RootKey \in DOMAIN memo
        /\ IF memo[RootKey].t = "result" /\ memo[RootKey].pos = Len(source)
           THEN phase = "returned" /\ ret = ParseValue(memo[RootKey].value)
           ELSE phase = "raised" /\ ret = NoRet

\* parse has returned the value of a term that consumed a non-empty source.
C1_Witness ==
    /\ entry = "parse" /\ phase = "returned"
    /\ Len(source) >= 2
    /\ ret = ParseValue(memo[RootKey].value)

\* parse has raised although the term succeeded, because input was left over.
C1_LeftoverRaises ==
    /\ entry = "parse" /\ phase = "raised"
    /\ memo[RootKey].t = "result" /\ memo[RootKey].pos < Len(source)

(* C2: parse_prefix(term, source) returns the pair (value, stop position) of
   term at position 0, whether or not the stop position is the end of the
   source, and raises ParseError iff that result is FAILURE. *)
C2_ParsePrefixReturnsPair ==
    (entry = "parse_prefix" /\ Done) =>
        /\ RootKey \in DOMAIN memo
        /\ (phase = "raised") <=> (memo[RootKey] = ParseFailure)
        /\ phase = "returned" => ret = memo[RootKey] /\ ret.t = "result"
        /\ phase = "raised" => ret = NoRet

\* parse_prefix has returned a result that stops before the end of the source.
C2_Witness ==
    /\ entry = "parse_prefix" /\ phase = "returned"
    /\ ret.t = "result" /\ 0 < ret.pos /\ ret.pos < Len(source)

(* C3: memoization is observationally transparent: any two requests for the
   same (term, position) pair are answered with identical results, whenever in
   the parse they are made, a request made while the pair is still being
   evaluated on the work stack included. *)
C3_AllAnswersAgree ==
    \A i, j \in 1..Len(answers) :
        answers[i].key = answers[j].key => answers[i].res = answers[j].res

(* C3 as amended: two requests for the same (term, position) pair that are
   both made when the pair's frame is not on the work stack are answered with
   identical results; a request made while the pair's frame is on the work
   stack is answered FAILURE, whatever the pair's evaluation ends with. *)
C3_SettledAnswersAgree ==
    \A i, j \in 1..Len(answers) :
        /\ answers[i].pending => answers[i].res = ParseFailure
        /\ (/\ answers[i].key = answers[j].key
            /\ ~answers[i].pending
            /\ ~answers[j].pending) => answers[i].res = answers[j].res

\* The same pair was requested twice outside its own evaluation and answered
\* with a success both times, and once during it.
C3_Witness ==
    \E i, j, n \in 1..Len(answers) :
        /\ i < j
        /\ answers[i].key = answers[j].key /\ answers[n].key = answers[i].key
        /\ ~answers[i].pending /\ ~answers[j].pending /\ answers[n].pending
        /\ answers[i].res.t = "result"

(* C4: the memo never stores partial results: every entry, in every reachable
   driver state, holds the value it holds when the parse ends, i.e. no step
   changes an entry. *)
C4_EntriesNeverChange ==
    [][\A key \in DOMAIN memo : key \in DOMAIN memo' /\ memo'[key] = memo[key]]_vars

(* C4 as amended: every memo entry whose key has no frame on the work stack is
   definitive (no step changes it); an entry whose key still has a frame on
   the work stack holds the tentative FAILURE. *)
C4_SettledEntriesNeverChange ==
    /\ [][\A key \in DOMAIN memo :
            ~OnStack(key, stack) => key \in DOMAIN memo' /\ memo'[key] = memo[key]]_vars
    /\ [](\A key \in DOMAIN memo : OnStack(key, stack) => memo[key] = ParseFailure)

\* Mid-parse, the memo holds a success for a finished key beside the tentative
\* FAILURE of the keys still on the stack.
C4_Witness ==
    /\ phase = "loop" /\ Len(stack) >= 2
    /\ \E key \in DOMAIN memo : ~OnStack(key, stack) /\ memo[key].t = "result"
    /\ \A j \in 1..Len(stack) : memo[stack[j].key] = ParseFailure

\* The guard Len(stack) < MaxDepth of Request never holds a step back.
StackCapNotHit == Len(stack) < MaxDepth

\* The source is a list with an element that is no token (it has no content).
IsListSource ==
    ~is_str /\ \E n \in 1..Len(source) : ~HasAttr(source[n], "content")

(* C5: for every grammar built from string, tuple, Struct, None and ForwardRef
   terms (self-requests at the same position, direct or through a ForwardRef,
   and nesting included) and every source, Parser.run terminates: the work
   stack becomes empty and run returns a result or raises ParseError. The
   sources are strings and lists of tokens. *)
C5_RunTerminates ==
    (term \in PlainRoots /\ ~IsListSource) => <>(Done /\ stack = <<>>)

\* run has ended on a grammar in which a term requested itself at its own
\* position (the request was answered from the seed) below a nested stack.
C5_Witness ==
    /\ Done /\ stack = <<>> /\ term \in PlainRoots
    /\ \E n \in 1..Len(answers) : answers[n].pending
    /\ Cardinality(DOMAIN memo) >= 3

\* The terms a term hands to the driver in its sub-requests, unwrapped.
SubTerms(t) ==
    CASE t.k \in {"tuple", "left", "or", "right", "expect", "list"} ->
            {Unwrap(t.items[n]) : n \in 1..Len(t.items)}
      [] t.k = "reduceleft" ->
            {Unwrap(t.items[1]), Tup(<<t.items[2], t.items[3]>>)}
      [] t.k = "reduceright" ->
            {Tup(<<t.items[1], t.items[2]>>), Unwrap(t.items[3])}
      [] t.k = "struct" /\ StructBase(t.s[1]) = "LeftAssoc" ->
            LET d == Delegate(t.s[1], _struct_fields(t.s[1]))
            IN  {Unwrap(d.items[1]), Tup(<<d.items[2], d.items[3]>>)}
      [] t.k = "struct" /\ StructBase(t.s[1]) = "RightAssoc" ->
            LET d == Delegate(t.s[1], _struct_fields(t.s[1]))
            IN  {Tup(<<d.items[1], d.items[2]>>), Unwrap(d.items[3])}
      [] t.k = "struct" ->
            {Unwrap(_struct_fields(t.s[1])[n][2]) :
                n \in 1..Len(_struct_fields(t.s[1]))}
      [] OTHER -> {}

RECURSIVE Closure(_)
Closure(S) ==
    LET more == S \cup UNION {SubTerms(t) : t \in S}
    IN  IF more = S THEN S ELSE Closure(more)

\* The distinct terms the parse can use: the term run is given and
\* everything reachable from it.
TermsUsed == Closure({Unwrap(whole)})

StackKeys == {stack[j].key : j \in 1..Len(stack)}

(* C6: in every reachable driver state the keys of the frames on the work
   stack are pairwise distinct and each is a key of the memo; hence the stack
   is never deeper than the number of distinct (term, position) pairs
   requested so far, which is at most (number of distinct terms used) x
   (len(source) + 1). *)
C6_StackKeysDistinctAndBounded ==
    /\ \A i, j \in 1..Len(stack) : stack[i].key = stack[j].key => i = j
    /\ StackKeys \subseteq DOMAIN memo
    /\ Len(stack) <= Cardinality(DOMAIN memo)
    /\ DOMAIN memo \subseteq TermsUsed \X (0..Len(source))
    /\ Cardinality(DOMAIN memo) <= Cardinality(TermsUsed) * (Len(source) + 1)

\* A stack several frames deep just after a request for a key that is on it
\* was answered from the memo instead of being pushed again.
C6_Witness ==
    /\ Len(stack) >= 3
    /\ req.t = "step" /\ ans = ParseFailure
    /\ <<Unwrap(req.term), req.pos>> \in StackKeys

\* The step is an iteration of run's loop whose suspension emits a ParseStep.
RequestStep == phase = "loop" /\ stack # <<>> /\ Resumed.out.t = "step"

(* C7: memo keys and work-stack keys never contain a ForwardRef: the key of a
   request is made of the concrete term its ForwardRef chain resolves to, so a
   request for ForwardRef(T) at p and a request for T at p use the same memo
   entry, and whichever comes second is answered from it and creates no new
   suspension. *)
C7_KeysAreUnwrapped ==
    /\ [](\A key \in DOMAIN memo \cup StackKeys : key[1].k # "ref")
    /\ [][RequestStep /\ phase' = "loop" =>
            LET key == <<Unwrap(Resumed.out.term), Resumed.out.pos>>
            IN  /\ key \in DOMAIN memo'
                /\ key \in DOMAIN memo =>
                      /\ Len(stack') = Len(stack)
                      /\ memo' = memo
                      /\ ans' = memo[key]
                /\ key \notin DOMAIN memo =>
                      /\ Len(stack') = Len(stack) + 1
                      /\ stack'[Len(stack')].key = key]_vars

\* T = (ForwardRef(T), 'a') was requested as T at 0, and the request for
\* ForwardRef(T) at 0 that followed was answered from T's entry, with no push.
C7_Witness ==
    /\ entry = "parse_prefix" /\ term = RefTarget("A")
    /\ req = ParseStep(Ref("A"), 0)
    /\ ans = memo[<<RefTarget("A"), 0>>]
    /\ Len(stack) = 1

\* The other order: ForwardRef(ForwardRef(T)) was requested first, at 1, and
\* its entry is keyed by T.
C7_ChainFirst ==
    /\ term = Tup(<<Str(<<"a">>), Ref("R")>>)
    /\ <<RefTarget("A"), 1>> \in DOMAIN memo

\* The step emits the final result res for the top frame: the frame is popped
\* and no sub-request is made.
Finishes(res) ==
    /\ req' = NoStep
    /\ ans' = res
    /\ stack' = SubSeq(stack, 1, Len(stack) - 1)
    /\ memo' = Put(memo, stack[Len(stack)].key, res)

\* The step emits the sub-request (t, pos) for the top frame, which stays.
Requests(t, pos) ==
    /\ req' = ParseStep(t, pos)
    /\ Len(stack') >= Len(stack)
    /\ stack'[Len(stack)].key = stack[Len(stack)].key
    /\ <<Unwrap(t), pos>> \in DOMAIN memo'

\* The items of a sequence from item n on, answered from memo m one after the
\* other, each from where the one before stopped; vals are the values so far.
\* NoAns when an item's key is not in m.
RECURSIVE SeqEval(_, _, _, _, _)
SeqEval(items, n, vals, pos, m) ==
    IF n > Len(items)
    THEN [t |-> "result", values |-> vals, pos |-> pos]
    ELSE LET key == <<Unwrap(items[n]), pos>>
         IN  IF key \notin DOMAIN m
             THEN [t |-> "none", values |-> <<>>, pos |-> 0]
             ELSE IF m[key].t # "result"
                  THEN [t |-> "failure", values |-> <<>>, pos |-> 0]
                  ELSE SeqEval(items, n + 1, Append(vals, m[key].value),
                               m[key].pos, m)

TopIs(gen) == phase = "loop" /\ stack # <<>> /\ stack[Len(stack)].gen.gen = gen

(* C8: a tuple term (t1, ..., tn) at p requests its items strictly in order,
   t1 at p and each next item where the previous one stopped; it succeeds iff
   every item succeeds, with the tuple of the item values and the stop
   position of tn (the empty tuple with ((), p)); as soon as an item fails the
   tuple fails and no later item is requested. *)
C8_TupleInOrder ==
    /\ [][TopIs("_parse_tuple") =>
            LET f == stack[Len(stack)]
                items == f.key[1].items
                fresh == f.gen.pc = "new"
                vals == IF fresh THEN <<>> ELSE Append(f.gen.ans, ans.value)
                pos == IF fresh THEN f.key[2] ELSE ans.pos
            IN  IF ~fresh /\ ans = ParseFailure
                THEN Finishes(ParseFailure)
                ELSE IF Len(vals) = Len(items)
                     THEN Finishes(ParseResult(TupleVal(vals), pos))
                     ELSE Requests(items[Len(vals) + 1], pos)]_vars
    /\ [](\A key \in DOMAIN memo :
            (key[1].k = "tuple" /\ ~OnStack(key, stack) /\ memo[key].t = "result") =>
                LET r == SeqEval(key[1].items, 1, <<>>, key[2], memo)
                IN  /\ r.t = "result"
                    /\ memo[key] = ParseResult(TupleVal(r.values), r.pos))

\* ('', 'a', None, 'b') has parsed "ab": four values, stopping at 2.
C8_Witness ==
    LET seq == <<Str(<<>>), Str(<<"a">>), NoneTerm, Str(<<"b">>)>>
        key == <<Tup(seq), 0>>
    IN  /\ key \in DOMAIN memo
        /\ memo[key] = ParseResult(TupleVal(<<StrVal(<<>>), StrVal(<<"a">>),
                                              NoneVal, StrVal(<<"b">>)>>), 2)

\* A tuple has failed at an item that is not its last: the next item has no
\* memo entry at any position.
C8_FailsEarly ==
    LET key == <<Tup(<<Str(<<"a">>), Str(<<"a">>), Str(<<"a">>)>>), 0>>
    IN  /\ phase = "raised" /\ term = key[1] /\ entry = "parse_prefix"
        /\ memo[key] = ParseFailure
        /\ Cardinality(DOMAIN memo) = 2

\* The field terms of a Struct class, in declaration order.
FieldTerms(cls) ==
    [n \in 1..Len(_struct_fields(cls)) |-> _struct_fields(cls)[n][2]]

\* The attributes of an instance of cls whose fields hold vals, in order.
FieldValues(cls, vals) ==
    [n \in 1..Len(vals) |-> <<_struct_fields(cls)[n][1], vals[n]>>]

(* C9: parsing a (non-assoc) Struct class at p allocates a fresh instance,
   parses the field terms in declaration order, the first at p and each next
   one where the previous stopped, stores each value under its field name, and
   succeeds with (instance, stop position of the last field); if a field term
   fails the struct fails, no later field is requested and no instance is
   returned. *)
C9_StructInOrder ==
    /\ [][TopIs("_parse_simple_struct") =>
            LET f == stack[Len(stack)]
                cls == f.key[1].s[1]
                fields == _struct_fields(cls)
                fresh == f.gen.pc = "new"
                id == IF fresh THEN Len(heap) + 1 ELSE f.gen.obj
                n == IF fresh THEN 0 ELSE f.gen.i
                pos == IF fresh THEN f.key[2] ELSE ans.pos
            IN  IF ~fresh /\ ans = ParseFailure
                THEN Finishes(ParseFailure) /\ heap' = heap
                ELSE /\ heap' = IF fresh
                                THEN Append(heap, [cls |-> cls, attrs |-> <<>>])
                                ELSE [heap EXCEPT ![id].attrs =
                                         Append(@, <<fields[n][1], ans.value>>)]
                     /\ IF n = Len(fields)
                        THEN Finishes(ParseResult(InstVal(id), pos))
                        ELSE Requests(fields[n + 1][2], pos)]_vars
    /\ [](\A key \in DOMAIN memo :
            (/\ key[1].k = "struct" /\ StructBase(key[1].s[1]) = "Struct"
             /\ ~OnStack(key, stack) /\ memo[key].t = "result") =>
                LET cls == key[1].s[1]
                    r == SeqEval(FieldTerms(cls), 1, <<>>, key[2], memo)
                    v == memo[key].value
                IN  /\ r.t = "result"
                    /\ memo[key].pos = r.pos
                    /\ v.k = "inst" /\ v.id \in 1..Len(heap)
                    /\ heap[v.id] = [cls |-> cls, attrs |-> FieldValues(cls, r.values)]
                    /\ \A other \in DOMAIN memo :
                          (/\ other # key
                           /\ other[1].k = "struct"
                           /\ memo[other].t = "result")
                              => memo[other].value.id # v.id)

\* Pair has parsed "ab": a new object with left = 'a', sep = '', right = 'b',
\* returned with the stop position 2.
C9_Witness ==
    /\ term = StructT("Pair")
    /\ <<StructT("Pair"), 0>> \in DOMAIN memo
    /\ memo[<<StructT("Pair"), 0>>] = ParseResult(InstVal(1), 2)
    /\ heap = << [cls |-> "Pair",
                  attrs |-> << <<"left", StrVal(<<"a">>)>>, <<"sep", StrVal(<<>>)>>,
                               <<"right", StrVal(<<"b">>)>> >>] >>

\* Node was parsed at 0 and, for its tail, at 1: two objects, the first
\* holding the second.
C9_TwoInstances ==
    /\ <<StructT("Node"), 0>> \in DOMAIN memo
    /\ <<StructT("Node"), 1>> \in DOMAIN memo
    /\ memo[<<StructT("Node"), 0>>].t = "result"
    /\ memo[<<StructT("Node"), 1>>].t = "result"
    /\ memo[<<StructT("Node"), 0>>].value = InstVal(1)
    /\ heap[1].attrs[2] = <<"tail", InstVal(2)>>

\* A Struct failed at its first field: its second field was never requested
\* and the result is FAILURE, not the half-filled instance.
C9_FailsEarly ==
    /\ entry = "parse_prefix" /\ term = StructT("Pair") /\ phase = "raised"
    /\ memo[<<StructT("Pair"), 0>>] = ParseFailure
    /\ Cardinality(DOMAIN memo) = 2
    /\ Len(heap) = 1

\* The characters of s stand in the source from position pos on.
StandsAt(s, pos) ==
    /\ pos + Len(s) <= Len(source)
    /\ \A n \in 1..Len(s) : source[pos + n] = s[n]

(* C10: on a character source a string term s at p succeeds with
   (s, p + len(s)) iff source[p : p+len(s)] equals s, and fails otherwise; so
   the empty string succeeds at every position 0..len(source) without
   consuming, and a string that would reach past the end of the source
   fails. *)
C10_TextMatchesSlice ==
    is_str =>
        \A key \in DOMAIN memo :
            (key[1].k = "str" /\ ~OnStack(key, stack)) =>
                /\ key[2] \in 0..Len(source)
                /\ memo[key] = IF StandsAt(key[1].s, key[2])
                               THEN ParseResult(StrVal(key[1].s),
                                                key[2] + Len(key[1].s))
                               ELSE ParseFailure

\* 'ab' has matched at 0 of a longer character source and stopped at 2.
C10_Witness ==
    /\ is_str /\ Len(source) = 3
    /\ <<Str(<<"a", "b">>), 0>> \in DOMAIN memo
    /\ memo[<<Str(<<"a", "b">>), 0>>] = ParseResult(StrVal(<<"a", "b">>), 2)

\* The empty string has succeeded at the end of a non-empty character source,
\* consuming nothing.
C10_EmptyAtEnd ==
    /\ is_str /\ Len(source) > 0
    /\ <<Str(<<>>), Len(source)>> \in DOMAIN memo
    /\ memo[<<Str(<<>>), Len(source)>>] = ParseResult(StrVal(<<>>), Len(source))

\* A string reaching past the end of the source has failed although the
\* source ends with its first characters.
C10_PastEndFails ==
    /\ is_str /\ source = <<"a">>
    /\ <<Str(<<"a", "b">>), 0>> \in DOMAIN memo
    /\ ~OnStack(<<Str(<<"a", "b">>), 0>>, stack)
    /\ memo[<<Str(<<"a", "b">>), 0>>] = ParseFailure

\* The source is a list of tokens.
IsTokenSource == ~is_str /\ ~IsListSource

(* C11: on a token source a string term v at p succeeds with (v, p + 1) iff
   p < len(source) and the content of source[p] equals v; at p >= len(source)
   it fails (no element is read: the model's source[p + 1] is only evaluated
   under p < len(source)), and a token of another content makes it fail. *)
C11_TokenMatchesContent ==
    IsTokenSource =>
        \A key \in DOMAIN memo :
            (key[1].k = "str" /\ ~OnStack(key, stack)) =>
                memo[key] = IF /\ key[2] < Len(source)
                               /\ source[key[2] + 1].content = key[1].s
                            THEN ParseResult(StrVal(key[1].s), key[2] + 1)
                            ELSE ParseFailure

\* The token 'ab' has matched the string term 'ab' at 0 of a token source and
\* the position advanced by one token, not by the two characters.
C11_Witness ==
    /\ IsTokenSource /\ Len(source) = 3
    /\ <<Str(<<"a", "b">>), 0>> \in DOMAIN memo
    /\ memo[<<Str(<<"a", "b">>), 0>>] = ParseResult(StrVal(<<"a", "b">>), 1)

\* A string term has failed at the end of a non-empty token source.
C11_PastEndFails ==
    /\ IsTokenSource /\ Len(source) > 0
    /\ \E key \in DOMAIN memo :
          /\ key[1].k = "str" /\ key[2] = Len(source)
          /\ ~OnStack(key, stack) /\ memo[key] = ParseFailure

\* A string term has failed on a token of another content.
C11_ContentDiffers ==
    /\ IsTokenSource
    /\ \E key \in DOMAIN memo :
          /\ key[1].k = "str" /\ key[2] < Len(source)
          /\ source[key[2] + 1].content # key[1].s
          /\ ~OnStack(key, stack) /\ memo[key] = ParseFailure

\* (Literal('a'), None, Literal('a')), the tuple of the test with 'a' for
\* both 'foo' and 'bar'.
LiteralNoneLiteral ==
    Tup(<<Literal(<<"str", "a">>), NoneTerm, Literal(<<"str", "a">>)>>)

(* C12: the term None is Return(None), not Literal(None): at every position
   of every source (characters, tokens, plain values) it succeeds with
   (None, p) and consumes nothing, also where source[p] is the value None; so
   parse of (Literal('a'), None, Literal('a')) returns ('a', None, 'a') on
   ['a', 'a'] and raises ParseError on ['a', None, 'a']. *)
C12_NoneIsReturnNone ==
    /\ TopIs("_parse_nothing") =>
            /\ Resumed.out = NoStep
            /\ Resumed.res = ParseResult(NoneVal, stack[Len(stack)].key[2])
    /\ \A key \in DOMAIN memo :
            (key[1].k = "none" /\ ~OnStack(key, stack)) =>
                memo[key] = ParseResult(NoneVal, key[2])
    /\ (entry = "parse" /\ term = LiteralNoneLiteral
            /\ phase \in {"returned", "raised", "crashed"}) =>
            /\ source = <<StrVal(<<"a">>), StrVal(<<"a">>)>> =>
                  /\ phase = "returned"
                  /\ ret = ParseValue(TupleVal(<<StrVal(<<"a">>), NoneVal,
                                                StrVal(<<"a">>)>>))
            /\ source = <<StrVal(<<"a">>), NoneVal, StrVal(<<"a">>)>> =>
                  phase = "raised"

\* parse of the tuple on ['a', None, 'a'] has raised ParseError, and None has
\* succeeded at 1, where the source holds the value None, without consuming it.
C12_Witness ==
    /\ entry = "parse" /\ term = LiteralNoneLiteral /\ phase = "raised"
    /\ source = <<StrVal(<<"a">>), NoneVal, StrVal(<<"a">>)>>
    /\ memo[<<NoneTerm, 1>>] = ParseResult(NoneVal, 1)
    /\ memo[<<Literal(<<"str", "a">>), 1>>] = ParseFailure

\* parse of the tuple on ['a', 'a'] has returned ('a', None, 'a').
C12_TupleParses ==
    /\ entry = "parse" /\ term = LiteralNoneLiteral /\ phase = "returned"
    /\ source = <<StrVal(<<"a">>), StrVal(<<"a">>)>>

\* None has succeeded at the end of a character source and of a token source.
C12_AtEnd ==
    /\ Len(source) > 0 /\ ~IsListSource
    /\ <<NoneTerm, Len(source)>> \in DOMAIN memo
    /\ memo[<<NoneTerm, Len(source)>>] = ParseResult(NoneVal, Len(source))

\* The entry point has ended: it returned, raised ParseError, or another
\* exception left it.
Ended == phase \in {"returned", "raised", "crashed"}

(* C13: a plain value v that is no string, tuple, None, Struct class or term
   object (an int, an arbitrary object) works as a term on a sequence source:
   at p it succeeds with (v, p + 1) iff p < len(source) and source[p] == v; so
   parse((0, 0), [0, 0]) returns (0, 0) and parse((0, 0), [0]) raises
   ParseError. *)
C13_PlainValueIsLiteral ==
    /\ \A key \in DOMAIN memo :
            (key[1].k = "plain" /\ ~OnStack(key, stack)) =>
                memo[key] = IF /\ key[2] < Len(source)
                               /\ source[key[2] + 1] = ValueOf(key[1].s)
                            THEN ParseResult(ValueOf(key[1].s), key[2] + 1)
                            ELSE ParseFailure
    /\ (entry = "parse" /\ Ended
            /\ term = Tup(<<Obj(<<"int", "0">>), Obj(<<"int", "0">>)>>)) =>
            /\ source = <<IntVal("0"), IntVal("0")>> =>
                  /\ phase = "returned"
                  /\ ret = ParseValue(TupleVal(<<IntVal("0"), IntVal("0")>>))
            /\ source = <<IntVal("0")>> => phase = "raised"

\* What the code does with a plain value used as a term: _parse reaches
\* term.parse, the lookup raises AttributeError, and the exception leaves the
\* entry point with the seed of the value's key in the memo.
C13_PlainValueCrashes ==
    \A key \in DOMAIN memo :
        key[1].k = "plain" =>
            /\ phase = "crashed" /\ ret = Exc("AttributeError")
            /\ memo[key] = ParseFailure /\ ~OnStack(key, stack)

\* parse((0, 0), [0, 0]) has ended with AttributeError.
C13_Witness ==
    /\ entry = "parse" /\ phase = "crashed"
    /\ term = Tup(<<Obj(<<"int", "0">>), Obj(<<"int", "0">>)>>)
    /\ source = <<IntVal("0"), IntVal("0")>>

\* The regular expression pat matches source[p : e] when anchored at p, and
\* no longer stretch (the patterns of the model are greedy repetitions of one
\* character).
IsMatch(pat, p, e) ==
    /\ e \in p..Len(source)
    /\ e - p >= PatMin(pat)
    /\ \A n \in (p + 1)..e : source[n] = PatChar(pat)
    /\ e < Len(source) => source[e + 1] # PatChar(pat)

(* C14: a compiled-regex term on a source that is no string yields FAILURE at
   every position, as a failed match and not as another error; on a
   character source it yields (match, match end) when the regular expression
   matches anchored at p and FAILURE otherwise. *)
C14_RegexNeedsString ==
    /\ TopIs("_parse_regex") =>
            /\ Resumed.out = NoStep
            /\ Resumed.res.t \in {"result", "failure"}
            /\ ~is_str => Resumed.res = ParseFailure
    /\ \A key \in DOMAIN memo :
            (key[1].k = "regex" /\ ~OnStack(key, stack)) =>
                IF is_str /\ \E e \in 0..Len(source) : IsMatch(key[1].s[1], key[2], e)
                THEN /\ memo[key].t = "result"
                     /\ IsMatch(key[1].s[1], key[2], memo[key].pos)
                     /\ memo[key].value =
                            MatchVal(Slice(source, key[2], memo[key].pos))
                ELSE memo[key] = ParseFailure
    /\ term \in RegexRoots \cup {Tup(<<Regex("b*"), NoneTerm>>)} =>
            phase # "crashed"

\* b* has failed at 0 of a non-empty token source, and parse_prefix of
\* (b*, a+, b*) on it has raised ParseError.
C14_Witness ==
    /\ IsTokenSource /\ Len(source) > 0 /\ phase = "raised"
    /\ term = Tup(<<Regex("b*"), Regex("a+"), Regex("b*")>>)
    /\ memo[<<Regex("b*"), 0>>] = ParseFailure

\* On 'aab', a+ has matched 'aa' from 0 (after b* matched nothing there) and
\* b* has matched 'b' from 2.
C14_TextMatch ==
    /\ is_str /\ source = <<"a", "a", "b">>
    /\ <<Regex("b*"), 2>> \in DOMAIN memo
    /\ memo[<<Regex("b*"), 0>>] = ParseResult(MatchVal(<<>>), 0)
    /\ memo[<<Regex("a+"), 0>>] = ParseResult(MatchVal(<<"a", "a">>), 2)
    /\ memo[<<Regex("b*"), 2>>] = ParseResult(MatchVal(<<"b">>), 3)

\* a+ has failed at 0 of a character source that starts with 'b'.
C14_TextNoMatch ==
    /\ is_str /\ Len(source) > 0 /\ source[1] = "b" /\ Done
    /\ <<Regex("a+"), 0>> \in DOMAIN memo
    /\ memo[<<Regex("a+"), 0>>] = ParseFailure

\* b* has failed at 0 of a list of plain values.
C14_ListSource ==
    /\ IsListSource /\ Done
    /\ <<Regex("b*"), 0>> \in DOMAIN memo
    /\ memo[<<Regex("b*"), 0>>] = ParseFailure

\* The term, or a term it can request, is Backtrack.
UsesBacktrack(t) == Backtrack \in Closure({t})

(* C15 as stated: for every term (Backtrack and Expect, and the driver's
   string, tuple, Struct and None terms included) and every (source, p),
   running the term at p fails or returns (v, p') with p' >= p. *)
C15_PositionsNeverDecrease ==
    \A key \in DOMAIN memo :
        memo[key].t = "result" => memo[key].pos >= key[2]

(* C15, amended: the same for every term that neither is Backtrack nor can
   request it; Backtrack at p > 0 returns p - 1, and Expect returns p. *)
C15_PositionsNeverDecreaseWithoutBacktrack ==
    \A key \in DOMAIN memo :
        memo[key].t = "result" =>
            /\ ~UsesBacktrack(key[1]) => memo[key].pos >= key[2]
            /\ key[1] = Backtrack => key[2] > 0 /\ memo[key].pos = key[2] - 1
            /\ key[1].k = "expect" => memo[key].pos = key[2]

\* Expect('ab') has succeeded at 0 of 'ab' and stayed at 0, and the tuple
\* (Expect('ab'), 'a') has stopped at 1.
C15_Witness ==
    /\ is_str /\ source = <<"a", "b">> /\ Done
    /\ term = Tup(<<Expect(Str(<<"a", "b">>)), Str(<<"a">>)>>)
    /\ memo[<<Expect(Str(<<"a", "b">>)), 0>>] = ParseResult(StrVal(<<"a", "b">>), 0)
    /\ memo[<<Unwrap(term), 0>>].pos = 1

\* Backtrack has succeeded at 1 with position 0, and so has the tuple
\* (Backtrack,) requested at 1.
C15_BacktrackGoesBack ==
    /\ {<<Backtrack, 1>>, <<Tup(<<Backtrack>>), 1>>} \subseteq DOMAIN memo
    /\ memo[<<Backtrack, 1>>] = ParseResult(NoneVal, 0)
    /\ memo[<<Tup(<<Backtrack>>), 1>>] = ParseResult(TupleVal(<<NoneVal>>), 0)

(* C16: parse(Left(T, End), s) equals parse(T, s) for every term T and source
   s: the second call ends as the first did, with the same value (Struct
   instances compared by class and fields) or with ParseError. *)
C16_SecondEndChangesNothing ==
    (calls # <<>> /\ Ended) =>
        /\ term.k = "left" /\ term.items[2] = End
        /\ Outcome(phase, ret) = calls[1]

\* parse(Left(Pair, End), 'ab') has returned a Pair instance after
\* parse(Pair, 'ab') returned one: two objects with the same fields.
C16_Witness ==
    /\ is_str /\ calls # <<>> /\ phase = "returned"
    /\ term = Left(StructT("Pair"), End) /\ source = <<"a", "b">>
    /\ Len(heap) = 2 /\ ret.value = InstVal(2)

\* Both calls have raised ParseError on a source with a rest: 'a' on 'ab'.
C16_BothRaise ==
    /\ is_str /\ calls # <<>> /\ phase = "raised"
    /\ term = Left(Str(<<"a">>), End) /\ source = <<"a", "b">>

\* How invocation who ended when it ran alone.
Alone(who) == IF who = "A" THEN calls[1] ELSE calls[2]

(* C17: two parse invocations on the same terms (and the same source), each
   with its own Parser, whose driver steps interleave in any order, each end
   as they did when run alone; a step of one driver leaves the memo, stack,
   fieldmap and delegates of the other as they were. *)
C17_InterleavingChangesNothing ==
    /\ [](Len(calls) = 2 =>
            /\ Ended => Outcome(phase, ret) = Alone(Other(parked.who))
            /\ parked.phase \in {"returned", "raised", "crashed"} =>
                  Outcome(parked.phase, parked.ret) = Alone(parked.who))
    /\ [][(Len(calls) = 2 /\ parked'.who = parked.who) => parked' = parked]_vars

\* Invocation A has returned from B = Or((B, 'b'), 'a') while invocation B, of
\* the same term, is in the middle of its run with two frames on its stack.
C17_Witness ==
    /\ Len(calls) = 2 /\ parked.who = "B"
    /\ term = Ref("B") /\ parked.term = Ref("B")
    /\ phase = "returned"
    /\ parked.phase = "loop" /\ Len(parked.stack) = 2
    /\ Len(source) = 3

\* Two invocations of Node ended with instances allocated in turns: A's
\* value is object 3 or later although A allocates its first object first.
C17_ObjectsInTurns ==
    /\ Len(calls) = 2 /\ parked.who = "B" /\ phase = "returned"
    /\ entry = "parse_prefix"
    /\ term = StructT("Pair") /\ parked.term = StructT("Pair")
    /\ parked.phase = "returned"
    /\ ret.value.id > parked.ret.value.id

\* No exception other than ParseError can leave a step of PairSpec.
C17_NoCrash == ~ENABLED Crash

(* ---- what a sum is, read off the source directly ---- *)

\* An operand stands at position p of a character source.
IsOperandAt(p) == p < Len(source) /\ source[p + 1] \in Chars

OperandAt(p) == StrVal(<<source[p + 1]>>)

\* How many times '+ operand' stands in a row from p on, and how many times
\* 'operand +'.
RECURSIVE Pairs(_)
Pairs(p) ==
    IF p < Len(source) /\ source[p + 1] = "+" /\ IsOperandAt(p + 1)
    THEN 1 + Pairs(p + 2)
    ELSE 0

RECURSIVE Prefixes(_)
Prefixes(p) ==
    IF IsOperandAt(p) /\ p + 1 < Len(source) /\ source[p + 2] = "+"
    THEN 1 + Prefixes(p + 2)
    ELSE 0

\* What build makes of left, '+' and right: the 3-tuple (cls = ""), or an
\* instance of cls, written as Deep writes it.
Node(cls, left, right) ==
    IF cls = ""
    THEN TupleVal(<<left, StrVal(<<"+">>), right>>)
    ELSE [k |-> "inst", s |-> <<cls, "left", "op", "right">>,
          items |-> <<left, StrVal(<<"+">>), right>>, id |-> 0]

\* The operands at p, p + 2, ..., p + 2n nested to the left, and to the right.
RECURSIVE LeftNest(_, _, _)
LeftNest(cls, p, n) ==
    IF n = 0
    THEN OperandAt(p)
    ELSE Node(cls, LeftNest(cls, p, n - 1), OperandAt(p + 2 * n))

RECURSIVE RightNest(_, _, _)
RightNest(cls, p, n) ==
    IF n = 0
    THEN OperandAt(p)
    ELSE Node(cls, OperandAt(p), RightNest(cls, p + 2, n - 1))

\* The left fold of the longest sum at p, and the right fold of the
\* 'operand +' prefixes at p with the operand after them.
ExpectedLeft(cls, p) ==
    IF IsOperandAt(p)
    THEN ParseResult(LeftNest(cls, p, Pairs(p + 1)), p + 1 + 2 * Pairs(p + 1))
    ELSE ParseFailure

ExpectedRight(cls, p) ==
    IF Prefixes(p) >= 1 /\ IsOperandAt(p + 2 * Prefixes(p))
    THEN ParseResult(RightNest(cls, p, Prefixes(p)), p + 2 * Prefixes(p) + 1)
    ELSE ParseFailure

\* The memo entry of key with its value as Deep writes it.
DeepEntry(key) == [memo[key] EXCEPT !.value = Deep(@)]

IsAssoc(t) == t.k = "struct" /\ StructBase(t.s[1]) # "Struct"

(* C18: an assoc Struct class gets its delegate built at most once per parse
   and every parse of the class uses that one; the delegate is a ReduceLeft
   for a LeftAssoc class and a ReduceRight for a RightAssoc class, with first
   the first field's term, middle the terms of the fields strictly between
   the first and the last, in order, and last the last field's term; its
   build(left, op, right) returns a new instance whose first field is left,
   middle fields the op values in order, and last field right. *)
C18_DelegateBuiltOnce ==
    /\ [](\A cls \in DOMAIN delegates :
            LET d == delegates[cls].term
                f == _struct_fields(cls)
            IN  /\ StructBase(cls) \in {"LeftAssoc", "RightAssoc"}
                /\ d.k = IF StructBase(cls) = "LeftAssoc"
                         THEN "reduceleft" ELSE "reduceright"
                /\ d.items[1] = f[1][2]
                /\ d.items[2].k = "tuple"
                /\ Len(d.items[2].items) = Len(f) - 2
                /\ \A n \in 2..(Len(f) - 1) : d.items[2].items[n - 1] = f[n][2]
                /\ d.items[3] = f[Len(f)][2])
    /\ []({delegates[cls].id : cls \in DOMAIN delegates}
            = 1..Cardinality(DOMAIN delegates))
    /\ [][\A cls \in DOMAIN delegates :
            cls \in DOMAIN delegates' /\ delegates'[cls] = delegates[cls]]_vars
    /\ [](\A j \in 1..Len(stack) :
            IsAssoc(stack[j].key[1]) =>
                /\ stack[j].key[1].s[1] \in DOMAIN delegates
                /\ stack[j].gen.term = delegates[stack[j].key[1].s[1]].term)
    /\ [](\A key \in DOMAIN memo :
            (IsAssoc(key[1]) /\ ~OnStack(key, stack)) =>
                DeepEntry(key) = IF StructBase(key[1].s[1]) = "LeftAssoc"
                                 THEN ExpectedLeft(key[1].s[1], key[2])
                                 ELSE ExpectedRight(key[1].s[1], key[2]))
    /\ [](\A i \in 1..Len(heap) :
            StructBase(heap[i].cls) # "Struct" =>
                \A n \in 1..Len(heap[i].attrs) :
                    LET v == heap[i].attrs[n][2]
                    IN  v.k = "inst" =>
                            /\ v.id < i
                            /\ \A j \in 1..Len(heap) :
                                  \A l \in 1..Len(heap[j].attrs) :
                                      heap[j].attrs[l][2] = v => (j = i /\ l = n))

\* parse((Add, Add), 'a+ba') has returned: Add's delegate, built for the
\* parse at 0, also served the parse at 3; object 1 is Add(a, +, b).
C18_Witness ==
    /\ is_str /\ entry = "parse" /\ phase = "returned"
    /\ term = Tup(<<StructT("Add"), StructT("Add")>>)
    /\ source = <<"a", "+", "b", "a">>
    /\ DOMAIN delegates = {"Add"} /\ delegates["Add"].id = 1
    /\ memo[<<StructT("Add"), 3>>] = ParseResult(StrVal(<<"a">>), 4)
    /\ heap = << [cls |-> "Add",
                  attrs |-> << <<"left", StrVal(<<"a">>)>>,
                               <<"op", StrVal(<<"+">>)>>,
                               <<"right", StrVal(<<"b">>)>> >>] >>

\* parse(Arrow, 'a+b+a') has returned Arrow(a, +, Arrow(b, +, a)): object 1
\* is the inner instance, object 2 the one returned.
C18_RightNested ==
    /\ is_str /\ entry = "parse" /\ phase = "returned"
    /\ term = StructT("Arrow")
    /\ source = <<"a", "+", "b", "+", "a">>
    /\ ret.value = InstVal(2)
    /\ heap[2].attrs = << <<"left", StrVal(<<"a">>)>>,
                          <<"op", StrVal(<<"+">>)>>,
                          <<"right", InstVal(1)>> >>

(* C19: ReduceLeft(first, middle, last) folds to the left: first gives acc,
   then each (middle, last) parsed from where the last one stopped gives
   acc := build(acc, op, right), until the sequence fails; the result is
   nested to the left with the operands in the order of the input. *)
C19_ReduceLeftFoldsLeft ==
    is_str =>
        \A key \in DOMAIN memo :
            (key[1] = ReduceLeft(Operand, Plus, Operand) /\ ~OnStack(key, stack)) =>
                memo[key] = ExpectedLeft("", key[2])

\* parse(ReduceLeft(operand, '+', operand), 'a+b+a') has returned
\* ((a, +, b), +, a).
C19_Witness ==
    /\ is_str /\ entry = "parse" /\ phase = "returned"
    /\ term = ReduceLeft(Operand, Plus, Operand)
    /\ source = <<"a", "+", "b", "+", "a">>
    /\ ret = ParseValue(TupleVal(<<
                TupleVal(<<StrVal(<<"a">>), StrVal(<<"+">>), StrVal(<<"b">>)>>),
                StrVal(<<"+">>), StrVal(<<"a">>) >>))

\* parse_prefix of the same on 'b+' has returned the lone operand and stopped
\* before the operator that nothing follows.
C19_LoneOperand ==
    /\ is_str /\ entry = "parse_prefix" /\ phase = "returned"
    /\ term = ReduceLeft(Operand, Plus, Operand)
    /\ source = <<"b", "+">>
    /\ ret = ParseResult(StrVal(<<"b">>), 1)

(* C20: ReduceRight(first, middle, last) folds to the right: one or more
   (first, middle) prefixes, then one last, combined from the right; the
   result is nested to the right. *)
C20_ReduceRightFoldsRight ==
    is_str =>
        \A key \in DOMAIN memo :
            (key[1] = ReduceRight(Operand, Plus, Operand) /\ ~OnStack(key, stack)) =>
                memo[key] = ExpectedRight("", key[2])

\* parse(ReduceRight(operand, '+', operand), 'a+b+a') has returned
\* (a, +, (b, +, a)).
C20_Witness ==
    /\ is_str /\ entry = "parse" /\ phase = "returned"
    /\ term = ReduceRight(Operand, Plus, Operand)
    /\ source = <<"a", "+", "b", "+", "a">>
    /\ ret = ParseValue(TupleVal(<<
                StrVal(<<"a">>), StrVal(<<"+">>),
                TupleVal(<<StrVal(<<"b">>), StrVal(<<"+">>), StrVal(<<"a">>)>>) >>))

\* parse_prefix of the same has raised ParseError on a lone operand (there
\* is no prefix) and on 'a+b+' (nothing follows the last prefix).
C20_NeedsPrefixAndLast ==
    /\ is_str /\ entry = "parse_prefix" /\ phase = "raised"
    /\ term = ReduceRight(Operand, Plus, Operand)
    /\ source \in {<<"a">>, <<"a", "+", "b", "+">>}

\* The list a^n of n values 'a'.
Repeat(v, n) == [j \in 1..n |-> v]

\* What List(t) at pos comes to, read off the memo entries m of t: the values
\* of t's successes one after the other, up to the first that fails or does
\* not advance.
RECURSIVE ListEval(_, _, _, _)
ListEval(t, vals, pos, m) ==
    LET key == <<Unwrap(t), pos>>
    IN  IF key \notin DOMAIN m
        THEN ParseFailure
        ELSE IF m[key] = ParseFailure \/ m[key].pos <= pos
             THEN ParseResult(ListVal(vals), pos)
             ELSE ListEval(t, Append(vals, m[key].value), m[key].pos, m)

(* C21: List(t) terminates on every input and for every t: if an iteration of
   t succeeds without advancing the position, the repetition stops at once
   with the values collected before that iteration and the unchanged
   position, so parse_prefix(List(''), source) returns ([], 0). *)
C21_ListStopsWithoutProgress ==
    /\ <>(Ended /\ (Done => stack = <<>>))
    /\ [](\A key \in DOMAIN memo :
            (key[1].k = "list" /\ ~OnStack(key, stack)) =>
                /\ memo[key] = ListEval(key[1].items[1], <<>>, key[2], memo)
                /\ memo[key].t = "result"
                /\ key[1].items[1] \in {Str(<<>>), NoneTerm} =>
                        memo[key] = ParseResult(ListVal(<<>>), key[2])
                /\ key[1].items[1] \in {Str(<<"a">>), Or(Str(<<"a">>), Str(<<>>))} =>
                        memo[key] =
                            ParseResult(ListVal(Repeat(StrVal(<<"a">>),
                                                       RunLen("a", key[2]))),
                                        key[2] + RunLen("a", key[2])))
    /\ []((Ended /\ entry = "parse_prefix" /\ term = List(Str(<<>>))) =>
            phase = "returned" /\ ret = ParseResult(ListVal(<<>>), 0))

\* parse_prefix(List(''), 'aba') has returned ([], 0).
C21_Witness ==
    /\ is_str /\ entry = "parse_prefix" /\ term = List(Str(<<>>))
    /\ source = <<"a", "b", "a">>
    /\ phase = "returned" /\ ret = ParseResult(ListVal(<<>>), 0)
    /\ stack = <<>>

\* List(Or('a', '')) on 'aab': two iterations advanced, the third succeeded
\* at 2 without advancing and its value is not in the list.
C21_StopsAfterProgress ==
    /\ is_str /\ term = List(Or(Str(<<"a">>), Str(<<>>)))
    /\ source = <<"a", "a", "b">> /\ Ended
    /\ memo[<<term, 0>>] =
            ParseResult(ListVal(<<StrVal(<<"a">>), StrVal(<<"a">>)>>), 2)
    /\ memo[<<Or(Str(<<"a">>), Str(<<>>)), 2>>] = ParseResult(StrVal(<<>>), 2)

\* List(Or('a', Backtrack)) on 'ab': the second iteration succeeded at 1 and
\* stopped at 0; the list is ['a'] at 1.
C21_StopsOnStepBack ==
    /\ is_str /\ term = List(Or(Str(<<"a">>), Backtrack))
    /\ source = <<"a", "b">> /\ Ended
    /\ memo[<<term, 0>>] = ParseResult(ListVal(<<StrVal(<<"a">>)>>), 1)
    /\ memo[<<Or(Str(<<"a">>), Backtrack), 1>>] = ParseResult(NoneVal, 0)

\* The top frame of the stack and its generator.
Top == stack[Len(stack)]

\* The Or of test_ordered_choice: 'a' before 'ab'.
FirstWins == Or(Str(<<"a">>), Str(<<"a", "b">>))

(* C22: Or(a, b) at p is ordered choice: a is requested first at p; if a
   succeeds its result is the result of Or and b is not requested; if a fails
   b is requested at the same position p and its result is the result of Or.
   A later failure of the surrounding sequence does not make Or try b:
   parse((Or('a', 'ab'), 'b'), 'ab') = ('a', 'b'), and parse(Or('a', 'ab'),
   'ab') raises ParseError. *)
C22_OrderedChoice ==
    /\ [][(TopIs("Or.parse") /\ stack' # stack) =>
            LET g == Top.gen
                p == Top.key[2]
                a == g.term.items[1]
                b == g.term.items[2]
            IN  /\ g.pc = "new" =>
                    /\ ans = NoAns
                    /\ req' = ParseStep(a, p)
                    /\ Len(stack') >= Len(stack)
                /\ (g.pc # "new" /\ g.i = 1 /\ ans # ParseFailure) =>
                    /\ stack' = SubSeq(stack, 1, Len(stack) - 1)
                    /\ ans' = ans /\ memo'[Top.key] = ans
                    /\ ans = memo[<<Unwrap(a), p>>]
                /\ (g.pc # "new" /\ g.i = 1 /\ ans = ParseFailure) =>
                    /\ req' = ParseStep(b, p)
                    /\ Len(stack') >= Len(stack)
                /\ (g.pc # "new" /\ g.i = 2) =>
                    /\ stack' = SubSeq(stack, 1, Len(stack) - 1)
                    /\ ans' = ans /\ memo'[Top.key] = ans
                    /\ ans = memo[<<Unwrap(b), p>>]]_vars
    /\ [](\A key \in DOMAIN memo :
            (key[1].k = "or" /\ ~OnStack(key, stack)) =>
                LET a == <<Unwrap(key[1].items[1]), key[2]>>
                    b == <<Unwrap(key[1].items[2]), key[2]>>
                IN  /\ a \in DOMAIN memo
                    /\ memo[a] # ParseFailure => memo[key] = memo[a]
                    /\ memo[a] = ParseFailure =>
                            b \in DOMAIN memo /\ memo[key] = memo[b])
    /\ []((is_str /\ FirstWins \in TermsUsed /\ <<Str(<<"a">>), 0>> \in DOMAIN memo
           /\ memo[<<Str(<<"a">>), 0>>] # ParseFailure) =>
                <<Str(<<"a", "b">>), 0>> \notin DOMAIN memo)
    /\ []((Ended /\ is_str /\ entry = "parse" /\ source = <<"a", "b">>) =>
            /\ term = Tup(<<FirstWins, Str(<<"b">>)>>) =>
                    /\ phase = "returned"
                    /\ ret = ParseValue(TupleVal(<<StrVal(<<"a">>), StrVal(<<"b">>)>>))
            /\ term = FirstWins => phase = "raised")

\* parse((Or('a', 'ab'), 'b'), 'ab') has returned ('a', 'b'), and 'ab' was
\* never requested.
C22_Witness ==
    /\ is_str /\ entry = "parse" /\ source = <<"a", "b">>
    /\ term = Tup(<<FirstWins, Str(<<"b">>)>>)
    /\ phase = "returned"
    /\ ret = ParseValue(TupleVal(<<StrVal(<<"a">>), StrVal(<<"b">>)>>))
    /\ <<Str(<<"a", "b">>), 0>> \notin DOMAIN memo

\* parse(Or('a', 'ab'), 'ab') has raised: Or ended with 'a' at 1, End failed
\* there, and 'ab', which reaches the end, was not tried.
C22_NoRetry ==
    /\ is_str /\ entry = "parse" /\ source = <<"a", "b">> /\ term = FirstWins
    /\ phase = "raised"
    /\ memo[<<FirstWins, 0>>] = ParseResult(StrVal(<<"a">>), 1)
    /\ <<Str(<<"a", "b">>), 0>> \notin DOMAIN memo

\* The first branch failed and the second gave the result of Or.
C22_SecondBranch ==
    /\ is_str /\ phase = "loop" /\ stack # <<>>
    /\ \E key \in DOMAIN memo :
        /\ key[1].k = "or" /\ ~OnStack(key, stack)
        /\ memo[<<Unwrap(key[1].items[1]), key[2]>>] = ParseFailure
        /\ memo[key].t = "result" /\ memo[key].pos > key[2]

\* The key of the sub-request the top suspension emits when resumed.
RequestKey == <<Unwrap(Resumed.out.term), Resumed.out.pos>>

(* C23: a sub-request whose unwrapped (term, position) key is already in the
   memo, whether its evaluation has finished or its frame is still on the
   work stack, is answered at once with the stored entry and pushes no frame;
   so at most one suspension is created per key during a parse (a frame is
   pushed only for a key the memo does not hold, and no key leaves the memo),
   and a request for a key whose frame is still on the stack is answered
   FAILURE. *)
C23_MemoHitPushesNothing ==
    /\ [][(RequestStep /\ phase' = "loop" /\ RequestKey \in DOMAIN memo) =>
            /\ stack' = [stack EXCEPT ![Len(stack)].gen = Resumed.g]
            /\ memo' = memo
            /\ ans' = memo[RequestKey]
            /\ OnStack(RequestKey, stack) => ans' = ParseFailure]_vars
    /\ [][Len(stack') > Len(stack) =>
            /\ Len(stack') = Len(stack) + 1
            /\ stack'[Len(stack')].key \notin DOMAIN memo
            /\ stack'[Len(stack')].key \in DOMAIN memo'
            /\ stack'[Len(stack')].gen.pc = "new"
            /\ \A j \in 1..Len(stack) : stack'[j].key = stack[j].key]_vars
    /\ [][DOMAIN memo \subseteq DOMAIN memo']_vars

\* A suspension has just asked for a key whose frame is below it on the
\* stack, and was answered FAILURE with no push.
C23_Witness ==
    /\ phase = "loop" /\ req.t = "step" /\ Len(stack) >= 2
    /\ OnStack(<<Unwrap(req.term), req.pos>>, stack)
    /\ Top.key # <<Unwrap(req.term), req.pos>>
    /\ ans = ParseFailure

\* A suspension has just asked for a key that finished with a success
\* earlier, and was answered with that entry with no push.
C23_FinishedHit ==
    /\ phase = "loop" /\ req.t = "step" /\ stack # <<>>
    /\ ~OnStack(<<Unwrap(req.term), req.pos>>, stack)
    /\ <<Unwrap(req.term), req.pos>> \in DOMAIN memo
    /\ ans = memo[<<Unwrap(req.term), req.pos>>] /\ ans.t = "result"
    /\ \E n \in 1..Len(answers) :
            answers[n].key = <<Unwrap(req.term), req.pos>> /\ n < Len(answers)

\* The key of the sub-request the suspended generator g emitted last.
AskedKey(g) == <<Unwrap(g.asked.term), g.asked.pos>>

(* C24: request/response pairing: whenever the driver resumes a suspension
   with a result, that result is the answer to the (unwrapped term, position)
   sub-request this same suspension emitted most recently: the memo entry
   found for it, or the final result emitted by the frame pushed for it. No
   suspension receives the answer to a sub-request of another suspension
   (every suspension below the top waits for the frame right above it), and a
   freshly pushed suspension is first resumed with 'no result'. *)
C24_AnswersArePaired ==
    /\ []((phase = "loop" /\ stack # <<>>) =>
            /\ \A j \in 1..(Len(stack) - 1) :
                    /\ stack[j].gen.pc = "wait"
                    /\ AskedKey(stack[j].gen) = stack[j + 1].key
            /\ Top.gen.pc = "new" => ans = NoAns /\ Top.gen.asked = NoStep
            /\ Top.gen.pc # "new" =>
                    /\ Top.gen.pc = "wait" /\ Top.gen.asked.t = "step"
                    /\ ans.t \in {"result", "failure"}
                    /\ AskedKey(Top.gen) \in DOMAIN memo
                    /\ ans = memo[AskedKey(Top.gen)]
                    /\ \/ req = Top.gen.asked
                       \/ /\ req = NoStep /\ answers # <<>>
                          /\ answers[Len(answers)] =
                                Answer(AskedKey(Top.gen), ans, FALSE))
    /\ [][(RequestStep /\ phase' = "loop") =>
            /\ req' = Resumed.out
            /\ stack'[Len(stack)].key = Top.key
            /\ stack'[Len(stack)].gen.asked = Resumed.out
            /\ \A j \in 1..(Len(stack) - 1) : stack'[j] = stack[j]
            /\ Len(stack') > Len(stack) =>
                    /\ stack'[Len(stack')].key = RequestKey
                    /\ ans' = NoAns]_vars
    /\ [][(phase = "loop" /\ Len(stack') < Len(stack)) =>
            /\ stack' = SubSeq(stack, 1, Len(stack) - 1)
            /\ Resumed.out = NoStep /\ ans' = Resumed.res
            /\ stack' # <<>> => AskedKey(stack'[Len(stack')].gen) = Top.key]_vars

\* Three suspensions deep, the frame pushed for the top suspension's request
\* has just emitted a success, which the driver is about to send to the top
\* suspension.
C24_Witness ==
    /\ phase = "loop" /\ Len(stack) >= 3
    /\ Top.gen.pc = "wait" /\ req = NoStep
    /\ ans.t = "result"
    /\ answers # <<>>
    /\ answers[Len(answers)] = Answer(AskedKey(Top.gen), ans, FALSE)

\* A suspension was pushed over two others and is about to be resumed for
\* the first time, with 'no result'.
C24_FreshGetsNone ==
    /\ phase = "loop" /\ Len(stack) >= 3
    /\ Top.gen.pc = "new" /\ ans = NoAns
    /\ AskedKey(stack[Len(stack) - 1].gen) = Top.key

\* The top suspension is about to be resumed with the memo entry found for
\* the request it has just made.
C24_AnsweredFromMemo ==
    /\ phase = "loop" /\ Len(stack) >= 2
    /\ Top.gen.pc = "wait" /\ req = Top.gen.asked
    /\ ans = memo[AskedKey(Top.gen)] /\ ans.t = "result"

\* The key of the request run starts with.
RunKey == <<Unwrap(whole), 0>>

(* C25: when Parser.run stops, the work stack is empty and the answer it
   returns (or turns into ParseError when it is FAILURE) is the final result
   emitted by the root suspension for (term, 0), equal to
   memo[(unwrapped term, 0)]; the answer is never a sub-request (ParseStep)
   and never the 'no result' placeholder. run stops when its loop ends; term
   is the term run is given, which for parse is Left(term, End). *)
C25_RunReturnsRootResult ==
    /\ [](Done =>
            /\ stack = <<>>
            /\ ans.t \in {"result", "failure"}
            /\ RunKey \in DOMAIN memo /\ ans = memo[RunKey]
            /\ answers # <<>> /\ answers[Len(answers)] = Answer(RunKey, ans, FALSE)
            /\ (phase = "raised") <=> (ans = ParseFailure)
            /\ phase = "returned" =>
                    ret = IF entry = "parse" THEN ParseValue(ans.value) ELSE ans)
    /\ [][(phase = "loop" /\ stack = <<>>) =>
            /\ Done' /\ ans' = ans /\ memo' = memo /\ stack' = stack
            /\ ans # NoAns /\ req = NoStep]_vars
    /\ [][(phase = "loop" /\ Len(stack) = 1 /\ stack' = <<>>) =>
            /\ Top.key = RunKey
            /\ Resumed.out = NoStep /\ ans' = Resumed.res]_vars

\* parse has returned at the end of a parse with several memo entries: run's
\* answer is the success of Left(term, End) at 0.
C25_Witness ==
    /\ entry = "parse" /\ phase = "returned" /\ stack = <<>>
    /\ ans = memo[<<Left(term, End), 0>>] /\ ans.t = "result" /\ ans.pos >= 2
    /\ Cardinality(DOMAIN memo) >= 4
    /\ answers[Len(answers)] = Answer(<<Left(term, End), 0>>, ans, FALSE)

\* parse_prefix has raised ParseError: the root suspension, of a ForwardRef's
\* term, ended with FAILURE after sub-requests.
C25_FailureRaises ==
    /\ entry = "parse_prefix" /\ phase = "raised" /\ stack = <<>>
    /\ term.k = "ref" /\ ans = ParseFailure
    /\ memo[<<Unwrap(term), 0>>] = ParseFailure
    /\ Len(answers) >= 3

\* The top suspension, resumed, emits a final result (a success or FAILURE).
EmitsFinal ==
    /\ phase = "loop" /\ stack # <<>>
    /\ Resumed.out = NoStep /\ Resumed.res.t \in {"result", "failure"}

(* C26: a suspension is never resumed after it has emitted a final result (a
   success or FAILURE): its frame is popped in the same driver step that
   receives that result. Hence the statements that follow a 'yield
   ParseFailure' in _parse_token, _parse_regex, _parse_tuple and
   _parse_simple_struct are never executed: no read of source[pos] with
   pos >= len(source) (IndexError), no .value / .pos access on FAILURE, no
   match on a source that is no string (TypeError). *)
C26_NeverResumedAfterFinal ==
    /\ [](\A j \in 1..Len(stack) : stack[j].gen.pc \in {"new", "wait"})
    /\ [][EmitsFinal =>
            /\ Resumed.g.pc \in {"failed", "ended"}
            /\ stack' = SubSeq(stack, 1, Len(stack) - 1)
            /\ \A j \in 1..Len(stack') : stack'[j].gen # Resumed.g]_vars
    /\ [](ret.t \notin {"IndexError", "TypeError", "StopIteration"})
    /\ [](phase = "crashed" =>
            /\ ret.t = "AttributeError"
            /\ IsListSource \/ \E t \in TermsUsed : t.k = "plain")

\* On a list of tokens a string was requested at len(source): _parse_token
\* emitted FAILURE at its first yield and the parse went on to its end; a
\* tuple that got that FAILURE emitted FAILURE too.
C26_Witness ==
    /\ Done /\ ~is_str /\ ~IsListSource /\ Len(source) >= 1
    /\ \E key \in DOMAIN memo :
        /\ key[1].k = "str" /\ key[2] = Len(source) /\ memo[key] = ParseFailure
    /\ \E key \in DOMAIN memo :
        /\ key[1].k = "tuple" /\ memo[key] = ParseFailure
        /\ \E n \in 1..Len(answers) :
                answers[n] = Answer(key, ParseFailure, FALSE)

\* On a list that is no string a regular expression was requested:
\* _parse_regex emitted FAILURE at its first yield and the parse went on.
C26_RegexOnList ==
    /\ Ended /\ ~is_str /\ Len(source) >= 1
    /\ \E key \in DOMAIN memo : key[1].k = "regex" /\ memo[key] = ParseFailure
    /\ \E key \in DOMAIN memo : key[1].k = "tuple" /\ memo[key] = ParseFailure

\* A Struct suspension got FAILURE for a field, emitted FAILURE, and the
\* parse went on.
C26_StructFailed ==
    /\ Done
    /\ \E key \in DOMAIN memo :
        /\ key[1].k = "struct" /\ StructBase(key[1].s[1]) = "Struct"
        /\ memo[key] = ParseFailure /\ key[2] >= 1

(* C27: for every key k: from the moment k's frame is pushed until it is
   popped, memo[k] is FAILURE; memo[k] is overwritten exactly once, in the
   step that pops k's frame, with the final result that frame emitted (a key
   enters the memo as FAILURE when its frame is pushed, no other step writes
   its entry, a popped key is never pushed again, and when run's loop has
   ended every key has been popped); after that step memo[k] never changes,
   and no key is ever removed from the memo during the parse. *)
C27_SeedOverwrittenOnce ==
    /\ [](\A j \in 1..Len(stack) :
            stack[j].key \in DOMAIN memo /\ memo[stack[j].key] = ParseFailure)
    /\ [][\A k \in DOMAIN memo :
            /\ k \in DOMAIN memo'
            /\ memo'[k] # memo[k] => EmitsFinal /\ Top.key = k
            /\ ~OnStack(k, stack) => memo'[k] = memo[k] /\ ~OnStack(k, stack')]_vars
    /\ [][EmitsFinal =>
            /\ memo' = Put(memo, Top.key, Resumed.res)
            /\ stack' = SubSeq(stack, 1, Len(stack) - 1)
            /\ ~OnStack(Top.key, stack')]_vars
    /\ [][\A k \in DOMAIN memo' :
            k \notin DOMAIN memo =>
                /\ memo'[k] = ParseFailure
                /\ DOMAIN memo' = DOMAIN memo \cup {k}
                /\ phase' = "loop" => stack' # <<>> /\ stack'[Len(stack')].key = k]_vars
    /\ [](Done => \A k \in DOMAIN memo :
                    \E n \in 1..Len(answers) : answers[n] = Answer(k, memo[k], FALSE))

\* A key was requested while its frame was on the stack and answered with
\* the seed; its frame has since been popped and the seed overwritten with
\* the success it emitted, while the parse goes on.
C27_Witness ==
    /\ phase = "loop" /\ stack # <<>>
    /\ \E n \in 1..Len(answers) :
        /\ answers[n].pending /\ answers[n].res = ParseFailure
        /\ ~OnStack(answers[n].key, stack)
        /\ memo[answers[n].key].t = "result"
        /\ \E j \in (n + 1)..Len(answers) :
                answers[j] = Answer(answers[n].key, memo[answers[n].key], FALSE)

\* The frame of a key has been popped with FAILURE: the seed was overwritten
\* with the same value.
C27_OverwrittenWithFailure ==
    /\ phase = "loop" /\ Len(stack) >= 2 /\ req = NoStep
    /\ ans = ParseFailure
    /\ answers[Len(answers)].res = ParseFailure
    /\ ~OnStack(answers[Len(answers)].key, stack)

====
